---------------------------- MODULE Spec2Model ----------------------------
(***************************************************************************)
(* Meeting-intelligence pipeline: chunk planning (audio_chunker), the      *)
(* bounded-retry provider calls (transcriber, summarizer), the per-chunk   *)
(* stage handlers, the merge stage (result_combiner) with action-item      *)
(* deduplication, and the failure router (failure_handler).                *)
(*                                                                         *)
(* The module holds several specifications over one set of variables; a   *)
(* specification leaves the variables of the other components at their     *)
(* idle values.                                                            *)
(*   SpecChunker   one run of audio_chunker.lambda_handler                 *)
(*   SpecStage     one invocation of the transcriber or the summarizer     *)
(*   SpecDedup     deduplicate_action_items, one input item per step       *)
(*   SpecPipeline  fan-out over the chunks of a job, merge, failure router *)
(*   SpecJob       the Job Record under the entry handler and the workflow *)
(*   SpecMerge     one invocation of the combiner on an arbitrary event    *)
(*   SpecRouter    one invocation of the failure handler                   *)
(***************************************************************************)
EXTENDS Integers, Sequences, FiniteSets, TLC

VARIABLES
    \* ---- audio_chunker ----
    CHUNK_DURATION,     \* env CHUNK_DURATION (nominal chunk length, seconds)
    OVERLAP_DURATION,   \* env OVERLAP_DURATION (seconds)
    duration_seconds,   \* audioResult.duration_seconds
    ck_pc,              \* position of the chunker handler
    num_chunks,         \* local num_chunks
    ck_i,               \* loop variable i
    chunks_metadata,    \* local list chunks_metadata
    chunk_uploads,      \* chunk ids whose audio was uploaded to storage
    \* ---- one stage invocation ----
    st_pc,              \* "idle", "ready" or "done"
    st_stage,           \* "transcriber" or "summarizer"
    st_event,           \* the input event of the handler
    st_env,             \* what storage, the secret store and the provider do
    st_inv,             \* what the invocation did
    \* ---- deduplicate_action_items ----
    dd_pc,              \* "idle", "loop" or "returned"
    dd_input,           \* all_action_items
    dd_idx,             \* number of input items processed
    deduplicated,       \* local list deduplicated
    dd_prev,            \* deduplicated before the last iteration
    \* ---- pipeline of one job ----
    wf_state,           \* state of the workflow execution
    wf_error,           \* message of the exception the workflow caught
    chunks,             \* chunkResult.chunks
    transcripts,        \* per chunk: the transcriber's result
    summaries,          \* per chunk: the summarizer's result
    s3,                 \* stored objects of the job, by key
    table,              \* the Job Record
    comb_event,         \* the summaries list handed to the combiner
    comb_out,           \* what the combiner did
    metrics,            \* failure metrics published, by stage tag
    \* ---- life of one job: entry handler and workflow ----
    eh_kind,            \* entry handler: "submit" (S3 URI) or "webhook" (Drive)
    eh_pc,              \* position of the entry handler
    job_pc,             \* position inside the stage the workflow is running
    wf_keys,            \* keys of the workflow's state data
    status_log,         \* every status written to the Job Record, in order
    write_log,          \* who made each write, and whether it set updated_at
    \* ---- pricing cache of one process (openai_pricing) ----
    environ,            \* os.environ, the three pricing keys
    utcnow,             \* datetime.utcnow(), in minutes
    _pricing_cache,     \* module global _pricing_cache
    _cache_timestamp,   \* module global _cache_timestamp
    gp_call,            \* the last call of get_pricing and what it did
    \* ---- webhook handler ----
    wh_table,           \* the Job Records the webhook handler created, in order
    wh_inv              \* the last invocation: request, environment, effects

chunkerVars == <<CHUNK_DURATION, OVERLAP_DURATION, duration_seconds, ck_pc,
                 num_chunks, ck_i, chunks_metadata, chunk_uploads>>
stageVars == <<st_pc, st_stage, st_event, st_env, st_inv>>
dedupVars == <<dd_pc, dd_input, dd_idx, deduplicated, dd_prev>>
pipeVars == <<wf_state, wf_error, chunks, transcripts, summaries, s3, table,
              comb_event, comb_out, metrics>>

jobVars == <<eh_kind, eh_pc, job_pc, wf_keys, status_log, write_log>>

pricingVars == <<environ, utcnow, _pricing_cache, _cache_timestamp, gp_call>>

webhookVars == <<wh_table, wh_inv>>

vars == <<chunkerVars, stageVars, dedupVars, pipeVars, jobVars, pricingVars,
          webhookVars>>

\* idle values of the components a specification does not run
ChunkerIdle ==
    /\ CHUNK_DURATION = 600
    /\ OVERLAP_DURATION = 30
    /\ duration_seconds = 0
    /\ ck_pc = "idle"
    /\ num_chunks = 0
    /\ ck_i = 0
    /\ chunks_metadata = <<>>
    /\ chunk_uploads = {}

StageIdle ==
    /\ st_pc = "idle"
    /\ st_stage = "none"
    /\ st_event = <<>>
    /\ st_env = <<>>
    /\ st_inv = <<>>

DedupIdle ==
    /\ dd_pc = "idle"
    /\ dd_input = <<>>
    /\ dd_idx = 0
    /\ deduplicated = <<>>
    /\ dd_prev = <<>>

PipelineIdle ==
    /\ wf_state = "idle"
    /\ wf_error = <<>>
    /\ chunks = <<>>
    /\ transcripts = <<>>
    /\ summaries = <<>>
    /\ s3 = <<>>
    /\ table = <<>>
    /\ comb_event = <<>>
    /\ comb_out = <<>>
    /\ metrics = <<>>

JobIdle ==
    /\ eh_kind = "none"
    /\ eh_pc = "idle"
    /\ job_pc = "idle"
    /\ wf_keys = {}
    /\ status_log = <<>>
    /\ write_log = <<>>

\* Python's None
None == [kind |-> "None"]

Unset == "<unset>"

EnvKeys ==
    {"WHISPER_PRICE_PER_SECOND", "GPT4O_MINI_INPUT_PRICE",
     "GPT4O_MINI_OUTPUT_PRICE"}

NoCall == [kind |-> "none"]

PricingIdle ==
    /\ environ = [k \in EnvKeys |-> Unset]
    /\ utcnow = 0
    /\ _pricing_cache = None
    /\ _cache_timestamp = None
    /\ gp_call = NoCall

WebhookIdle ==
    /\ wh_table = <<>>
    /\ wh_inv = [kind |-> "none"]

-----------------------------------------------------------------------------
(* Bounds *)

\* at most this many candidate chunks per planned recording
MaxCandidates == 4

-----------------------------------------------------------------------------
(* Helpers *)

Min(a, b) == IF a <= b THEN a ELSE b

\* math.ceil(a / b) for a >= 0, b > 0
Ceil(a, b) == IF a % b = 0 THEN a \div b ELSE (a \div b) + 1

Last(s) == s[Len(s)]

-----------------------------------------------------------------------------
(* audio_chunker *)

\* the extractor rejects recordings longer than 60 minutes
MAX_DURATION == 3600

\* skip rule: a chunk shorter than this is not emitted
MIN_CHUNK_SECONDS == 10

\* configured chunk lengths and overlaps that are explored
ChunkLengths == {15, 600}
Overlaps == {0, 5, 30}

Durations(L) == 0 .. Min(MaxCandidates * L, MAX_DURATION)

\* variant: candidate i starts at i times the chunk length, no overlap
StartTime_NoOverlap(i) == i * CHUNK_DURATION

\* start_time of candidate i
StartTime(i) == IF i = 0 THEN 0 ELSE (i * CHUNK_DURATION) - OVERLAP_DURATION

\* variant: every candidate has the nominal length
ChunkDuration_Nominal(i) == CHUNK_DURATION

\* chunk_duration of candidate i
ChunkDuration(i) == Min(CHUNK_DURATION, duration_seconds - StartTime(i))

\* variant: chunk ids count from 1
ChunkDescriptor_OneBased(i) ==
    [chunk_id   |-> i + 1,
     start_time |-> StartTime(i),
     end_time   |-> StartTime(i) + ChunkDuration(i),
     duration   |-> ChunkDuration(i)]

ChunkDescriptor(i) ==
    [chunk_id   |-> i,
     start_time |-> StartTime(i),
     end_time   |-> StartTime(i) + ChunkDuration(i),
     duration   |-> ChunkDuration(i)]

InitChunker ==
    /\ CHUNK_DURATION \in ChunkLengths
    /\ OVERLAP_DURATION \in Overlaps
    /\ duration_seconds \in Durations(CHUNK_DURATION)
    /\ ck_pc = "start"
    /\ num_chunks = 0
    /\ ck_i = 0
    /\ chunks_metadata = <<>>
    /\ chunk_uploads = {}
    /\ StageIdle /\ DedupIdle /\ PipelineIdle /\ JobIdle /\ PricingIdle /\ WebhookIdle

\* s3.download_file of the audio fails: the handler re-raises
ChunkerDownloadFail ==
    /\ ck_pc = "start"
    /\ ck_pc' = "raised"
    /\ UNCHANGED <<CHUNK_DURATION, OVERLAP_DURATION, duration_seconds,
                   num_chunks, ck_i, chunks_metadata, chunk_uploads>>
    /\ UNCHANGED <<stageVars, dedupVars, pipeVars, jobVars, pricingVars, webhookVars>>

\* num_chunks = math.ceil(duration_seconds / CHUNK_DURATION)
ChunkerPlan ==
    /\ ck_pc = "start"
    /\ num_chunks' = Ceil(duration_seconds, CHUNK_DURATION)
    /\ ck_i' = 0
    /\ ck_pc' = "loop"
    /\ UNCHANGED <<CHUNK_DURATION, OVERLAP_DURATION, duration_seconds,
                   chunks_metadata, chunk_uploads>>
    /\ UNCHANGED <<stageVars, dedupVars, pipeVars, jobVars, pricingVars, webhookVars>>

\* loop body, candidate too short: continue
ChunkerSkip ==
    /\ ck_pc = "loop"
    /\ ck_i < num_chunks
    /\ ChunkDuration(ck_i) < MIN_CHUNK_SECONDS
    /\ ck_i' = ck_i + 1
    /\ UNCHANGED <<CHUNK_DURATION, OVERLAP_DURATION, duration_seconds, ck_pc,
                   num_chunks, chunks_metadata, chunk_uploads>>
    /\ UNCHANGED <<stageVars, dedupVars, pipeVars, jobVars, pricingVars, webhookVars>>

\* loop body, split_audio_chunk returned False (or the upload raised)
ChunkerSplitFail ==
    /\ ck_pc = "loop"
    /\ ck_i < num_chunks
    /\ ChunkDuration(ck_i) >= MIN_CHUNK_SECONDS
    /\ ck_pc' = "raised"
    /\ UNCHANGED <<CHUNK_DURATION, OVERLAP_DURATION, duration_seconds,
                   num_chunks, ck_i, chunks_metadata, chunk_uploads>>
    /\ UNCHANGED <<stageVars, dedupVars, pipeVars, jobVars, pricingVars, webhookVars>>

\* loop body, chunk split, uploaded and its descriptor appended
ChunkerCreate ==
    /\ ck_pc = "loop"
    /\ ck_i < num_chunks
    /\ ChunkDuration(ck_i) >= MIN_CHUNK_SECONDS
    /\ chunk_uploads' = chunk_uploads \cup {ck_i}
    /\ chunks_metadata' = Append(chunks_metadata, ChunkDescriptor(ck_i))
    /\ ck_i' = ck_i + 1
    /\ UNCHANGED <<CHUNK_DURATION, OVERLAP_DURATION, duration_seconds, ck_pc,
                   num_chunks>>
    /\ UNCHANGED <<stageVars, dedupVars, pipeVars, jobVars, pricingVars, webhookVars>>

\* the loop is over: return {chunks, total_chunks, total_duration}
ChunkerReturn ==
    /\ ck_pc = "loop"
    /\ ck_i >= num_chunks
    /\ ck_pc' = "returned"
    /\ UNCHANGED <<CHUNK_DURATION, OVERLAP_DURATION, duration_seconds,
                   num_chunks, ck_i, chunks_metadata, chunk_uploads>>
    /\ UNCHANGED <<stageVars, dedupVars, pipeVars, jobVars, pricingVars, webhookVars>>

NextChunker ==
    \/ ChunkerDownloadFail
    \/ ChunkerPlan
    \/ ChunkerSkip
    \/ ChunkerSplitFail
    \/ ChunkerCreate
    \/ ChunkerReturn

SpecChunker == InitChunker /\ [][NextChunker]_vars

-----------------------------------------------------------------------------
(* Chunk planner claims *)

\* C1: for O < L every two consecutively emitted chunks overlap by exactly O
\* seconds (end of chunk k-1 minus start of chunk k is O), and D=1500, L=600,
\* O=30 yields exactly [0,600), [570,1170), [1140,1500).
C1_ConsecutiveOverlap ==
    (ck_pc = "returned" /\ OVERLAP_DURATION < CHUNK_DURATION) =>
        /\ \A k \in 2 .. Len(chunks_metadata) :
              chunks_metadata[k-1].end_time - chunks_metadata[k].start_time
                  = OVERLAP_DURATION
        /\ (duration_seconds = 1500 /\ CHUNK_DURATION = 600
                /\ OVERLAP_DURATION = 30) =>
              /\ Len(chunks_metadata) = 3
              /\ <<chunks_metadata[1].start_time, chunks_metadata[1].end_time>>
                     = <<0, 600>>
              /\ <<chunks_metadata[2].start_time, chunks_metadata[2].end_time>>
                     = <<570, 1170>>
              /\ <<chunks_metadata[3].start_time, chunks_metadata[3].end_time>>
                     = <<1140, 1500>>

\* C2: with L=600, O=30 and D >= 10 the emitted chunks cover [0, D): the first
\* chunk starts at 0, each later chunk starts no later than the end of the
\* chunk before it, and the last chunk ends at D.
C2_Coverage ==
    (ck_pc = "returned" /\ CHUNK_DURATION = 600 /\ OVERLAP_DURATION = 30
        /\ duration_seconds >= 10) =>
        /\ Len(chunks_metadata) >= 1
        /\ chunks_metadata[1].start_time = 0
        /\ \A k \in 2 .. Len(chunks_metadata) :
              chunks_metadata[k].start_time <= chunks_metadata[k-1].end_time
        /\ Last(chunks_metadata).end_time = duration_seconds

-----------------------------------------------------------------------------
(* Provider calls with retry: transcribe_audio and generate_summary *)

\* max_retries and retry_delay of both executors
max_retries == 3
retry_delay == 2

\* An exception message is modelled by the marker substrings it contains and
\* its length in characters.
Msg(marks, len) == [marks |-> marks, len |-> len]
NoMsg == Msg({}, 0)

\* variant: only the status code is recognised as rate limiting
IsRateLimit_Only429(msg) == "429" \in msg.marks

\* '429' in error_msg or 'rate_limit' in error_msg.lower()
IsRateLimit(msg) == "429" \in msg.marks \/ "rate_limit" \in msg.marks

\* any(code in error_msg for code in ['500', '502', '503', '504', 'timeout'])
TranscriberServerCodes == {"500", "502", "503", "504", "timeout"}
IsTranscriberServerError(msg) == (msg.marks \cap TranscriberServerCodes) # {}

\* any(code in error_msg for code in ['500', '502', '503', '504'])
SummarizerServerCodes == {"500", "502", "503", "504"}
IsSummarizerServerError(msg) == (msg.marks \cap SummarizerServerCodes) # {}

\* the provider's answer to one call: success, or an exception with a message
Answer(ok, msg) == [ok |-> ok, msg |-> msg]
AnswerOk == Answer(TRUE, NoMsg)

\* result of an executor: kind is "returned" or "raised"; calls counts the
\* provider calls made, sleeps lists the time.sleep arguments in order
ExecResult(kind, error, calls, sleeps) ==
    [kind |-> kind, error |-> error, calls |-> calls, sleeps |-> sleeps]

\* the for loop of transcribe_audio from iteration `attempt` on
RECURSIVE transcribe_loop(_, _, _)
transcribe_loop(answers, attempt, sleeps) ==
    IF attempt >= max_retries
    THEN ExecResult("raised", Msg({"RuntimeError"}, 50), attempt, sleeps)
    ELSE LET a == answers[attempt + 1]
             wait_time == retry_delay * (2 ^ attempt)
         IN  IF a.ok
             THEN ExecResult("returned", NoMsg, attempt + 1, sleeps)
             ELSE IF IsRateLimit(a.msg) /\ attempt < max_retries - 1
             THEN transcribe_loop(answers, attempt + 1, Append(sleeps, wait_time))
             ELSE IF ~IsRateLimit(a.msg) /\ IsTranscriberServerError(a.msg)
                       /\ attempt < max_retries - 1
             THEN transcribe_loop(answers, attempt + 1, Append(sleeps, wait_time))
             ELSE IF attempt = max_retries - 1
             THEN ExecResult("raised", a.msg, attempt + 1, sleeps)
             ELSE transcribe_loop(answers, attempt + 1, sleeps)

\* transcribe_audio: get_openai_client() first, then the retry loop
transcribe_audio(secret_ok, answers) ==
    IF ~secret_ok
    THEN ExecResult("raised", Msg({"SecretsManager"}, 90), 0, <<>>)
    ELSE transcribe_loop(answers, 0, <<>>)

\* variant: the backoff is not guarded by attempt < max_retries - 1
RECURSIVE summary_loop_SleepOnLast(_, _, _)
summary_loop_SleepOnLast(answers, attempt, sleeps) ==
    IF attempt >= max_retries
    THEN ExecResult("raised", Msg({"RuntimeError"}, 50), attempt, sleeps)
    ELSE LET a == answers[attempt + 1]
             wait_time == retry_delay * (2 ^ attempt)
         IN  IF a.ok
             THEN ExecResult("returned", NoMsg, attempt + 1, sleeps)
             ELSE IF IsRateLimit(a.msg) \/ IsSummarizerServerError(a.msg)
             THEN summary_loop_SleepOnLast(answers, attempt + 1,
                                           Append(sleeps, wait_time))
             ELSE IF attempt = max_retries - 1
             THEN ExecResult("raised", a.msg, attempt + 1, sleeps)
             ELSE summary_loop_SleepOnLast(answers, attempt + 1, sleeps)

\* the for loop of generate_summary from iteration `attempt` on
RECURSIVE summary_loop(_, _, _)
summary_loop(answers, attempt, sleeps) ==
    IF attempt >= max_retries
    THEN ExecResult("raised", Msg({"RuntimeError"}, 50), attempt, sleeps)
    ELSE LET a == answers[attempt + 1]
             wait_time == retry_delay * (2 ^ attempt)
         IN  IF a.ok
             THEN ExecResult("returned", NoMsg, attempt + 1, sleeps)
             ELSE IF (IsRateLimit(a.msg) \/ IsSummarizerServerError(a.msg))
                       /\ attempt < max_retries - 1
             THEN summary_loop(answers, attempt + 1, Append(sleeps, wait_time))
             ELSE IF attempt = max_retries - 1
             THEN ExecResult("raised", a.msg, attempt + 1, sleeps)
             ELSE summary_loop(answers, attempt + 1, sleeps)

\* generate_summary: get_openai_client() first, then the retry loop
generate_summary(secret_ok, answers) ==
    IF ~secret_ok
    THEN ExecResult("raised", Msg({"SecretsManager"}, 90), 0, <<>>)
    ELSE summary_loop(answers, 0, <<>>)

-----------------------------------------------------------------------------
(* Stage handlers: transcriber.lambda_handler and summarizer.lambda_handler *)

\* default rate of whisper-1 per second, in units of 0.0001 USD
WHISPER_PRICE == 1

\* calculate_whisper_cost, money in units of 0.0001 USD
calculate_whisper_cost(d) == IF d <= 0 THEN 0 ELSE d * WHISPER_PRICE

\* storage keys of the per-chunk objects of the job
\* variant: one transcript key for all the chunks of the job
TranscriptKey_Shared(chunk_id) == <<"transcripts", 0>>

TranscriptKey(chunk_id) == <<"transcripts", chunk_id>>
SummaryKey(chunk_id) == <<"summaries", chunk_id>>
FinalResultKey == <<"final_result", 0>>

\* no object is written
NoPut == <<>>
PutOf(key, body) == <<[key |-> key, body |-> body]>>

\* keys an input event of a stage must carry
TranscriberKeys == {"chunk_id", "s3_path", "meeting_id", "start_time", "end_time"}
SummarizerKeys  == {"chunk_id", "meeting_id", "transcript_s3_path",
                    "start_time", "end_time"}

\* event.get('chunk_id', -1)
EventChunkId(event) == IF "chunk_id" \in event.has THEN event.chunk_id ELSE -1

\* what a handler invocation did: it returned `value` or raised `error`;
\* calls and sleeps are those of its executor, put is the object it stored
Invocation(kind, value, error, calls, sleeps, put) ==
    [kind |-> kind, value |-> value, error |-> error,
     calls |-> calls, sleeps |-> sleeps, put |-> put]

NoValue == [status |-> "none"]

\* the body of the transcriber's try block
TranscriberTry(event, env) ==
    IF ~(TranscriberKeys \subseteq event.has)
    THEN Invocation("raised", NoValue, Msg({"KeyError"}, 12), 0, <<>>, NoPut)
    ELSE IF ~env.s3get
    THEN Invocation("raised", NoValue, Msg({"ClientError"}, 120), 0, <<>>, NoPut)
    ELSE LET r == transcribe_audio(env.secret, env.answers)
             cost == calculate_whisper_cost(env.duration)
             transcript_dict ==
                 [chunk_id |-> event.chunk_id, duration |-> env.duration,
                  start_time |-> event.start_time, end_time |-> event.end_time]
             result ==
                 [chunk_id |-> event.chunk_id,
                  has |-> SummarizerKeys \cup {"status", "cost", "duration",
                                             "processing_time_seconds"},
                  start_time |-> event.start_time,
                  end_time |-> event.end_time,
                  cost |-> cost,
                  processing_time_seconds |-> env.seconds,
                  status |-> "success",
                  error |-> NoMsg]
         IN  IF r.kind = "raised"
             THEN Invocation("raised", NoValue, r.error, r.calls, r.sleeps, NoPut)
             ELSE IF ~env.s3put
             THEN Invocation("raised", NoValue, Msg({"ClientError"}, 120),
                             r.calls, r.sleeps, NoPut)
             ELSE Invocation("returned", result, NoMsg, r.calls, r.sleeps,
                             PutOf(TranscriptKey(event.chunk_id), transcript_dict))

\* variant: the except clause lets the exception through
TranscriberExcept_Reraise(event, t) == t

\* the except clause of the transcriber: a failed result, nothing raised
TranscriberExcept(event, t) ==
    Invocation("returned",
               [chunk_id |-> EventChunkId(event),
                has |-> {"chunk_id", "meeting_id", "status", "error"},
                start_time |-> 0, end_time |-> 0, cost |-> 0,
                processing_time_seconds |-> 0,
                status |-> "failed",
                error |-> t.error],
               NoMsg, t.calls, t.sleeps, t.put)

\* transcriber.lambda_handler
TranscriberHandler(event, env) ==
    LET t == TranscriberTry(event, env)
    IN  IF t.kind = "raised" THEN TranscriberExcept(event, t) ELSE t

\* time_range label: the four numbers printed as MM:SS - MM:SS
TimeRange(start_time, end_time) ==
    <<start_time \div 60, start_time % 60, end_time \div 60, end_time % 60>>

\* defaults of an action item
Unassigned == "Unassigned"
NotSpecified == "Not specified"
\* an Owner or Due field that a response line does not carry; a line without
\* an Action field has the empty action text
Absent == "<absent>"
\* an item without mentioned_at
NoMention == <<>>

\* variant: a line without an action text gives an item as well
ParseLine_KeepEmpty(line) ==
    IF ~line.bullet THEN <<>>
    ELSE <<[action   |-> line.action,
            owner    |-> IF line.owner = Absent THEN Unassigned ELSE line.owner,
            due_date |-> IF line.due = Absent THEN NotSpecified ELSE line.due]>>

\* one line of the action-item section -> the items it contributes
ParseLine(line) ==
    IF ~line.bullet THEN <<>>
    ELSE LET action_dict ==
                 [action   |-> line.action,
                  owner    |-> IF line.owner = Absent THEN Unassigned ELSE line.owner,
                  due_date |-> IF line.due = Absent THEN NotSpecified ELSE line.due]
         IN  IF action_dict.action # <<>> THEN <<action_dict>> ELSE <<>>

RECURSIVE ParseLines(_)
ParseLines(lines) ==
    IF lines = <<>> THEN <<>>
    ELSE ParseLine(Head(lines)) \o ParseLines(Tail(lines))

\* variant: the response is split without the test of the marker count
parse_summary_response_NoMarkerTest(response) ==
    [summary |-> response.summary_part,
     action_items |-> IF response.none THEN <<>> ELSE ParseLines(response.lines)]

\* parse_summary_response: a response is its raw text, the number of
\* 'ACTION ITEMS:' markers in it, the text before the marker and the lines
\* after it (none: the section reads 'None')
parse_summary_response(response) ==
    IF response.markers # 1
    THEN [summary |-> response.raw, action_items |-> <<>>]
    ELSE [summary |-> response.summary_part,
          action_items |-> IF response.none THEN <<>>
                           ELSE ParseLines(response.lines)]

\* variant: the handler without the test of the transcript's status
SummarizerTry_NoSkip(event, env) ==
    IF ~(SummarizerKeys \subseteq event.has)
    THEN Invocation("raised", NoValue, Msg({"KeyError"}, 12), 0, <<>>, NoPut)
    ELSE IF ~env.s3get
    THEN Invocation("raised", NoValue, Msg({"ClientError"}, 120), 0, <<>>, NoPut)
    ELSE LET time_range == TimeRange(event.start_time, event.end_time)
             r == generate_summary(env.secret, env.answers)
             parsed_summary == parse_summary_response(env.response)
         IN  IF r.kind = "raised"
             THEN Invocation("raised", NoValue, r.error, r.calls, r.sleeps, NoPut)
             ELSE IF ~env.s3put
             THEN Invocation("raised", NoValue, Msg({"ClientError"}, 120),
                             r.calls, r.sleeps, NoPut)
             ELSE Invocation("returned",
                             [chunk_id |-> event.chunk_id, status |-> "success",
                              has |-> {"chunk_id", "meeting_id", "summary_s3_path",
                                       "time_range", "action_items_count",
                                       "status"},
                              time_range |-> time_range,
                              action_items_count |->
                                  Len(parsed_summary.action_items),
                              error |-> NoMsg],
                             NoMsg, r.calls, r.sleeps,
                             PutOf(SummaryKey(event.chunk_id),
                                   [chunk_id |-> event.chunk_id,
                                    time_range |-> time_range,
                                    summary |-> parsed_summary.summary,
                                    action_items |-> parsed_summary.action_items]))

\* the body of the summarizer's try block
SummarizerTry(event, env) ==
    IF event.status = "failed"
    THEN Invocation("returned",
                    [chunk_id |-> EventChunkId(event), status |-> "skipped",
                     has |-> {"chunk_id", "meeting_id", "status", "reason"},
                     time_range |-> <<>>, action_items_count |-> 0,
                     error |-> NoMsg],
                    NoMsg, 0, <<>>, NoPut)
    ELSE IF ~(SummarizerKeys \subseteq event.has)
    THEN Invocation("raised", NoValue, Msg({"KeyError"}, 12), 0, <<>>, NoPut)
    ELSE IF ~env.s3get
    THEN Invocation("raised", NoValue, Msg({"ClientError"}, 120), 0, <<>>, NoPut)
    ELSE LET time_range == TimeRange(event.start_time, event.end_time)
             r == generate_summary(env.secret, env.answers)
             parsed_summary == parse_summary_response(env.response)
             summary_data ==
                 [chunk_id |-> event.chunk_id,
                  time_range |-> time_range,
                  summary |-> parsed_summary.summary,
                  action_items |-> parsed_summary.action_items]
             result ==
                 [chunk_id |-> event.chunk_id, status |-> "success",
                  has |-> {"chunk_id", "meeting_id", "summary_s3_path",
                           "time_range", "action_items_count", "status"},
                  time_range |-> time_range,
                  action_items_count |-> Len(parsed_summary.action_items),
                  error |-> NoMsg]
         IN  IF r.kind = "raised"
             THEN Invocation("raised", NoValue, r.error, r.calls, r.sleeps, NoPut)
             ELSE IF ~env.s3put
             THEN Invocation("raised", NoValue, Msg({"ClientError"}, 120),
                             r.calls, r.sleeps, NoPut)
             ELSE Invocation("returned", result, NoMsg, r.calls, r.sleeps,
                             PutOf(SummaryKey(event.chunk_id), summary_data))

\* variant: the except clause of the summarizer lets the exception through
SummarizerExcept_Reraise(event, t) == t

\* the except clause of the summarizer: a failed result, nothing raised
SummarizerExcept(event, t) ==
    Invocation("returned",
               [chunk_id |-> EventChunkId(event), status |-> "failed",
                has |-> {"chunk_id", "meeting_id", "status", "error"},
                time_range |-> <<>>, action_items_count |-> 0,
                error |-> t.error],
               NoMsg, t.calls, t.sleeps, t.put)

\* summarizer.lambda_handler
SummarizerHandler(event, env) ==
    LET t == SummarizerTry(event, env)
    IN  IF t.kind = "raised" THEN SummarizerExcept(event, t) ELSE t

-----------------------------------------------------------------------------
(* result_combiner: similarity and deduplicate_action_items *)

\* similarity_threshold = 0.8, as the fraction SIM_NUM / SIM_DEN
SIM_NUM == 4
SIM_DEN == 5

\* str.lower() on the characters that occur in the explored texts
LowerChar(c) ==
    CASE c = "A" -> "a" [] c = "B" -> "b" [] c = "C" -> "c"
      [] c = "D" -> "d" [] c = "E" -> "e" [] OTHER -> c

Lower(text) == [k \in 1 .. Len(text) |-> LowerChar(text[k])]

Max(S) == CHOOSE x \in S : \A y \in S : y <= x
MinOf(S) == CHOOSE x \in S : \A y \in S : x <= y

\* length of the common run of a from i and b from j, inside a[..ahi], b[..bhi]
RECURSIVE RunLen(_, _, _, _, _, _)
RunLen(a, b, i, j, ahi, bhi) ==
    IF i > ahi \/ j > bhi THEN 0
    ELSE IF a[i] # b[j] THEN 0
    ELSE 1 + RunLen(a, b, i + 1, j + 1, ahi, bhi)

\* SequenceMatcher.find_longest_match on a[alo..ahi], b[blo..bhi] (no junk):
\* the longest block, of those the one starting earliest in a, of those the
\* one starting earliest in b
FindLongestMatch(a, b, alo, ahi, blo, bhi) ==
    LET size == Max({RunLen(a, b, i, j, ahi, bhi) :
                        i \in alo .. ahi, j \in blo .. bhi})
        besti == MinOf({i \in alo .. ahi :
                        \E j \in blo .. bhi : RunLen(a, b, i, j, ahi, bhi) = size})
        bestj == MinOf({j \in blo .. bhi : RunLen(a, b, besti, j, ahi, bhi) = size})
    IN  [i |-> besti, j |-> bestj, size |-> size]

\* total size of SequenceMatcher.get_matching_blocks: the longest block, then
\* recursively the pieces to its left and to its right
RECURSIVE MatchingSize(_, _, _, _, _, _)
MatchingSize(a, b, alo, ahi, blo, bhi) ==
    IF alo > ahi \/ blo > bhi THEN 0
    ELSE LET m == FindLongestMatch(a, b, alo, ahi, blo, bhi)
         IN  IF m.size = 0 THEN 0
             ELSE m.size
                  + MatchingSize(a, b, alo, m.i - 1, blo, m.j - 1)
                  + MatchingSize(a, b, m.i + m.size, ahi, m.j + m.size, bhi)

\* SequenceMatcher(None, a.lower(), b.lower()).ratio() as the exact fraction
\* num / den (ratio() is 2.0 * matches / length, and 1.0 when length is 0)
similarity(a, b) ==
    LET la == Lower(a)
        lb == Lower(b)
        length == Len(la) + Len(lb)
    IN  IF length = 0 THEN [num |-> 1, den |-> 1]
        ELSE [num |-> 2 * MatchingSize(la, lb, 1, Len(la), 1, Len(lb)),
              den |-> length]

\* variant: the threshold itself counts as similar
ExceedsThreshold_AtLeast(r) == r.num * SIM_DEN >= SIM_NUM * r.den

\* r > similarity_threshold
ExceedsThreshold(r) == r.num * SIM_DEN > SIM_NUM * r.den

\* the explored action texts; "Abcde" is within the threshold of "bcde" and of
\* "abcdef", which are not within the threshold of each other
ActionTexts ==
    { <<"b", "c", "d", "e">>,
      <<"a", "b", "c", "d", "e", "f">>,
      <<"A", "b", "c", "d", "e">>,
      <<"x", "y", "z">> }

\* similarity of every pair of explored texts, computed once
SimilarityTable == [a \in ActionTexts, b \in ActionTexts |-> similarity(a, b)]

\* similarity(action_text, existing['action']) > similarity_threshold
IsSimilar(action_text, existing_action) ==
    ExceedsThreshold(SimilarityTable[action_text, existing_action])

\* variant: the most similar accepted item above the threshold, 0 when none
FirstMatch_MostSimilar(accepted, item) ==
    LET hits == {k \in 1 .. Len(accepted) :
                    IsSimilar(item.action, accepted[k].action)}
        Score(k) == SimilarityTable[item.action, accepted[k].action]
    IN  IF hits = {} THEN 0
        ELSE CHOOSE k \in hits :
                \A j \in hits :
                    \/ Score(k).num * Score(j).den > Score(j).num * Score(k).den
                    \/ /\ Score(k).num * Score(j).den = Score(j).num * Score(k).den
                       /\ k <= j

\* variant: the inner loop looks at the last accepted item only
FirstMatch_LastOnly(accepted, item) ==
    IF accepted # <<>>
          /\ IsSimilar(item.action, accepted[Len(accepted)].action)
    THEN Len(accepted)
    ELSE 0

\* index of the accepted item the inner loop breaks at, 0 when it finds none
FirstMatch(accepted, item) ==
    LET hits == {k \in 1 .. Len(accepted) :
                    IsSimilar(item.action, accepted[k].action)}
    IN  IF hits = {} THEN 0 ELSE MinOf(hits)

\* variant: the duplicate's owner and due date replace the accepted ones
MergeInto_Overwrite(existing, item) ==
    [existing EXCEPT !.owner = item.owner, !.due_date = item.due_date]

\* the merge of a duplicate into the accepted item `existing`
MergeInto(existing, item) ==
    [existing EXCEPT
        !.owner = IF item.owner # Unassigned /\ existing.owner = Unassigned
                  THEN item.owner ELSE @,
        !.due_date = IF item.due_date # NotSpecified
                          /\ existing.due_date = NotSpecified
                     THEN item.due_date ELSE @,
        !.mentioned_at = IF item.mentioned_at # NoMention /\ @ = NoMention
                         THEN item.mentioned_at ELSE @]

\* variant: a new item is put in front of the accepted ones
DedupStep_Prepend(accepted, item) ==
    LET k == FirstMatch(accepted, item)
    IN  IF k = 0 THEN <<item>> \o accepted
        ELSE [accepted EXCEPT ![k] = MergeInto(accepted[k], item)]

\* one iteration of the outer loop of deduplicate_action_items
DedupStep(accepted, item) ==
    LET k == FirstMatch(accepted, item)
    IN  IF k = 0 THEN Append(accepted, item)
        ELSE [accepted EXCEPT ![k] = MergeInto(accepted[k], item)]

\* variant: a duplicate takes the place of the accepted item it is similar to
RECURSIVE DedupFrom_KeepLatest(_, _)
DedupFrom_KeepLatest(accepted, items) ==
    IF items = <<>> THEN accepted
    ELSE LET item == Head(items)
             k == FirstMatch(accepted, item)
         IN  DedupFrom_KeepLatest(
                 IF k = 0 THEN Append(accepted, item)
                 ELSE [accepted EXCEPT ![k] = item],
                 Tail(items))

RECURSIVE DedupFrom(_, _)
DedupFrom(accepted, items) ==
    IF items = <<>> THEN accepted
    ELSE DedupFrom(DedupStep(accepted, Head(items)), Tail(items))

deduplicate_action_items(all_action_items) == DedupFrom(<<>>, all_action_items)

-----------------------------------------------------------------------------
(* result_combiner.lambda_handler *)

\* storage after the puts of an invocation
ApplyPut(store, put) ==
    IF put = NoPut THEN store
    ELSE [k \in DOMAIN store \cup {put[1].key} |->
             IF k = put[1].key THEN put[1].body ELSE store[k]]

\* x.get(key, 0) of the numeric fields the combiner adds up
GetNumber(x, key) == IF key \in x.has THEN x[key] ELSE 0

\* [s for s in summaries if s.get('status') == 'success']
IsSuccess(x) == x.status = "success"

\* variant: all-or-nothing, one unsuccessful result discards every result
SuccessfulOf_AllOrNothing(results) ==
    IF \A k \in DOMAIN results : results[k].status = "success" THEN results
    ELSE <<>>

SuccessfulOf(results) == SelectSeq(results, IsSuccess)

\* list.sort(key=chunk_id): stable, ascending
RECURSIVE InsertByChunkId(_, _)
InsertByChunkId(sorted, x) ==
    IF sorted = <<>> THEN <<x>>
    ELSE IF Last(sorted).chunk_id <= x.chunk_id THEN Append(sorted, x)
    ELSE Append(InsertByChunkId(SubSeq(sorted, 1, Len(sorted) - 1), x),
                Last(sorted))

RECURSIVE SortByChunkIdFrom(_, _)
SortByChunkIdFrom(sorted, rest) ==
    IF rest = <<>> THEN sorted
    ELSE SortByChunkIdFrom(InsertByChunkId(sorted, Head(rest)), Tail(rest))

\* variant: the successful summaries stay in arrival order
SortByChunkId_ArrivalOrder(results) == results

SortByChunkId(results) == SortByChunkIdFrom(<<>>, results)

\* variant: the total is assigned, not accumulated
SumOver_Assign(key, xs) ==
    IF xs = <<>> THEN 0 ELSE GetNumber(Last(xs), key)

\* the running total of one numeric field over a list of results
RECURSIVE SumOver(_, _)
SumOver(key, xs) ==
    IF xs = <<>> THEN 0 ELSE GetNumber(Head(xs), key) + SumOver(key, Tail(xs))

\* the items of one downloaded summary, tagged with mentioned_at and chunk_id
TaggedItems(summary_data, chunk_id) ==
    [k \in 1 .. Len(summary_data.action_items) |->
        [action       |-> summary_data.action_items[k].action,
         owner        |-> summary_data.action_items[k].owner,
         due_date     |-> summary_data.action_items[k].due_date,
         mentioned_at |-> summary_data.time_range,
         chunk_id     |-> chunk_id]]

RECURSIVE CollectItems(_, _)
CollectItems(metas, store) ==
    IF metas = <<>> THEN <<>>
    ELSE TaggedItems(store[SummaryKey(Head(metas).chunk_id)], Head(metas).chunk_id)
            \o CollectItems(Tail(metas), store)

\* variant: the summary fields are not mirrored into the Job Record
CompletedRecord_StatusOnly(rec, final_result) ==
    [rec EXCEPT !.status = "completed",
                !.final_result_s3_path = FinalResultKey]

\* the Job Record fields the combiner writes on success
CompletedRecord(rec, final_result) ==
    [rec EXCEPT !.status = "completed",
                !.final_summary = final_result.final_summary,
                !.action_items = final_result.action_items,
                !.final_result_s3_path = FinalResultKey,
                !.total_cost = final_result.cost_breakdown.total_cost]

\* the Job Record fields the combiner writes in its except clause
CombinerFailedRecord(rec, error) ==
    [rec EXCEPT !.status = "failed", !.error_message = error]

\* what the combiner did: returned `value` or raised `error`, the objects it
\* stored, the Job Record it left, and its locals successful_summaries (after
\* the sort) and all_action_items
CombinerOutcome(kind, value, error, put, rec, sorted, collected) ==
    [kind |-> kind, value |-> value, error |-> error, put |-> put,
     record |-> rec, sorted |-> sorted, collected |-> collected]

\* the except clause of the combiner: write failed (when the write works) and
\* re-raise
CombinerExcept(error, put, rec, env, sorted, collected) ==
    CombinerOutcome("raised", NoValue, error, put,
                    IF env.db_failed_write THEN CombinerFailedRecord(rec, error)
                    ELSE rec,
                    sorted, collected)

\* result_combiner.lambda_handler on the event {summaries, transcripts}, with
\* storage `store` and Job Record `rec`
CombinerHandler(event, env, store, rec) ==
    LET successful_summaries == SuccessfulOf(event.summaries)
        sorted == SortByChunkId(successful_summaries)
        good_transcripts == SuccessfulOf(event.transcripts)
        total_transcription_cost == SumOver("cost", good_transcripts)
        total_transcription_time == SumOver("processing_time_seconds", good_transcripts)
        Downloaded(m) == /\ "summary_s3_path" \in m.has
                         /\ SummaryKey(m.chunk_id) \in DOMAIN store
                         /\ m.chunk_id \notin env.get_fails
        loaded == SelectSeq(sorted, Downloaded)
        all_summaries == [k \in 1 .. Len(loaded) |->
                             store[SummaryKey(loaded[k].chunk_id)]]
        total_summarization_cost == SumOver("cost", loaded)
        total_prompt_tokens == SumOver("prompt_tokens", loaded)
        total_completion_tokens == SumOver("completion_tokens", loaded)
        total_summarization_time == SumOver("processing_time_seconds", loaded)
        all_action_items == CollectItems(loaded, store)
        final_summary == [k \in 1 .. Len(all_summaries) |->
                             <<all_summaries[k].time_range,
                               all_summaries[k].summary>>]
        final_result ==
            [status |-> "combined",
             final_summary |-> final_summary,
             action_items |-> deduplicate_action_items(all_action_items),
             total_chunks_processed |-> Len(all_summaries),
             cost_breakdown |->
                 [transcription_cost |-> total_transcription_cost,
                  summarization_cost |-> total_summarization_cost,
                  total_cost |-> total_transcription_cost
                                    + total_summarization_cost],
             usage_metrics |->
                 [prompt_tokens |-> total_prompt_tokens,
                  completion_tokens |-> total_completion_tokens,
                  total_tokens |-> total_prompt_tokens + total_completion_tokens],
             performance_metrics |->
                 [transcription_time_seconds |-> total_transcription_time,
                  summarization_time_seconds |-> total_summarization_time,
                  total_processing_time_seconds |->
                      total_transcription_time + total_summarization_time]]
        put == PutOf(FinalResultKey, final_result)
    IN  IF successful_summaries = <<>>
        THEN CombinerExcept(Msg({"ValueError"}, 34), NoPut, rec, env, <<>>, <<>>)
        ELSE IF ~env.s3put
        THEN CombinerExcept(Msg({"ClientError"}, 120), NoPut, rec, env,
                            sorted, all_action_items)
        ELSE IF ~env.db_update
        THEN CombinerExcept(Msg({"ClientError"}, 120), put, rec, env,
                            sorted, all_action_items)
        ELSE CombinerOutcome("returned", final_result, NoMsg, put,
                             CompletedRecord(rec, final_result),
                             sorted, all_action_items)

-----------------------------------------------------------------------------
(* failure_handler.lambda_handler *)

\* str(error_message)[:1000]
ERROR_MESSAGE_LIMIT == 1000
Truncate(msg) == [msg EXCEPT !.len = Min(@, ERROR_MESSAGE_LIMIT)]

\* variant: the stage stays at its initial value
ErrorStage_Unknown(keys) == "unknown"

\* the if/elif chain over the keys of the event
ErrorStage(keys) ==
    IF "downloadResult" \notin keys THEN "video_download"
    ELSE IF "audioResult" \notin keys THEN "audio_extraction"
    ELSE IF "chunkResult" \notin keys THEN "audio_chunking"
    ELSE IF "transcripts" \notin keys THEN "transcription"
    ELSE IF "summaries" \notin keys THEN "summarization"
    ELSE IF "finalResult" \notin keys THEN "result_combination"
    ELSE "notification"

\* variant: the write leaves the stage out
RoutedRecord_NoStage(rec, error_stage, error_message) ==
    [rec EXCEPT !.status = "failed",
                !.error_message = Truncate(error_message)]

\* the Job Record fields the failure handler writes
RoutedRecord(rec, error_stage, error_message) ==
    [rec EXCEPT !.status = "failed",
                !.error_stage = error_stage,
                !.error_message = Truncate(error_message)]

\* variant: a failed Job Record write ends the handler
FailureHandler_StopOnWriteFailure(event, env, rec) ==
    IF ~event.has_meeting_id \/ ~env.db_update
    THEN [status |-> "error", record |-> rec, metric |-> <<>>]
    ELSE LET error_stage == ErrorStage(event.keys)
         IN  [status |-> "failed",
              record |-> RoutedRecord(rec, error_stage, event.error),
              metric |-> IF env.metric THEN <<error_stage>> ELSE <<>>]

\* failure_handler.lambda_handler on an event with the keys `keys`, the job id
\* resolvable or not, and the error message of the failed state
FailureHandler(event, env, rec) ==
    IF ~event.has_meeting_id
    THEN [status |-> "error", record |-> rec, metric |-> <<>>]
    ELSE LET error_stage == ErrorStage(event.keys)
         IN  [status |-> "failed",
              record |-> IF env.db_update
                         THEN RoutedRecord(rec, error_stage, event.error)
                         ELSE rec,
              metric |-> IF env.metric THEN <<error_stage>> ELSE <<>>]

-----------------------------------------------------------------------------
(* SpecStage: one invocation of a stage handler, over every environment *)

\* messages of the provider's exceptions: rate limiting, server faults, a
\* timeout, an authentication error and a not-found error
ProviderErrors ==
    { Msg({"429", "rate_limit"}, 160), Msg({"429"}, 40), Msg({"rate_limit"}, 60),
      Msg({"500"}, 60), Msg({"503"}, 60), Msg({"timeout"}, 30),
      Msg({"401"}, 70), Msg({"404"}, 70) }

Answers == {AnswerOk} \cup {Answer(FALSE, m) : m \in ProviderErrors}
AnswerSeqs == [1 .. max_retries -> Answers]

\* a line of the action-item section of a response
Line(bullet, action, owner, due) ==
    [bullet |-> bullet, action |-> action, owner |-> owner, due |-> due]

\* provider responses: well-formed with four lines, without the section
\* marker, and with an empty action-item section
StageResponses ==
    { [raw |-> "raw1", markers |-> 1, summary_part |-> "summary1", none |-> FALSE,
       lines |-> << Line(TRUE, <<"b", "c", "d", "e">>, "Sarah", Absent),
                    Line(FALSE, <<"x", "y", "z">>, Absent, Absent),
                    Line(TRUE, <<>>, "Bob", "Friday"),
                    Line(TRUE, <<"A", "b", "c", "d", "e">>, Absent, "Friday") >>],
      [raw |-> "raw2", markers |-> 0, summary_part |-> "", none |-> FALSE,
       lines |-> <<>>],
      [raw |-> "raw3", markers |-> 1, summary_part |-> "summary3", none |-> TRUE,
       lines |-> <<>>] }

TranscriberEnvs ==
    [s3get : BOOLEAN, secret : BOOLEAN, answers : AnswerSeqs,
     duration : {600}, seconds : {7}, s3put : BOOLEAN]

SummarizerEnvs ==
    [s3get : BOOLEAN, secret : BOOLEAN, answers : AnswerSeqs,
     response : StageResponses, s3put : BOOLEAN]

\* a chunk descriptor as the chunker emits it, and two with a key missing
StageChunk == [chunk_id |-> 1, start_time |-> 570, end_time |-> 1170]
StageTranscriberEvents ==
    { [chunk_id |-> StageChunk.chunk_id, start_time |-> StageChunk.start_time,
       end_time |-> StageChunk.end_time, has |-> h] :
        h \in { TranscriberKeys, TranscriberKeys \ {"s3_path"},
                TranscriberKeys \ {"chunk_id"} } }

StageGoodEnv ==
    [s3get |-> TRUE, secret |-> TRUE, answers |-> [k \in 1 .. max_retries |-> AnswerOk],
     duration |-> 600, seconds |-> 7, s3put |-> TRUE]

StageGoodEvent ==
    [chunk_id |-> StageChunk.chunk_id, start_time |-> StageChunk.start_time,
     end_time |-> StageChunk.end_time, has |-> TranscriberKeys]

\* transcript results as the transcriber returns them (success, failed), and
\* a successful one with a key missing
StageSummarizerEvents ==
    LET good == TranscriberHandler(StageGoodEvent, StageGoodEnv).value
        bad  == TranscriberHandler(StageGoodEvent,
                                   [StageGoodEnv EXCEPT !.s3get = FALSE]).value
    IN  { good, bad, [good EXCEPT !.has = @ \ {"transcript_s3_path"}] }

InitStage ==
    /\ st_pc = "ready"
    /\ st_stage \in {"transcriber", "summarizer"}
    /\ \/ st_stage = "transcriber" /\ st_event \in StageTranscriberEvents
                                  /\ st_env \in TranscriberEnvs
       \/ st_stage = "summarizer" /\ st_event \in StageSummarizerEvents
                                  /\ st_env \in SummarizerEnvs
    /\ st_inv = <<>>
    /\ ChunkerIdle /\ DedupIdle /\ PipelineIdle /\ JobIdle /\ PricingIdle /\ WebhookIdle

StageInvokeTranscriber ==
    /\ st_pc = "ready"
    /\ st_stage = "transcriber"
    /\ st_inv' = TranscriberHandler(st_event, st_env)
    /\ st_pc' = "done"
    /\ UNCHANGED <<st_stage, st_event, st_env>>
    /\ UNCHANGED <<chunkerVars, dedupVars, pipeVars, jobVars, pricingVars, webhookVars>>

StageInvokeSummarizer ==
    /\ st_pc = "ready"
    /\ st_stage = "summarizer"
    /\ st_inv' = SummarizerHandler(st_event, st_env)
    /\ st_pc' = "done"
    /\ UNCHANGED <<st_stage, st_event, st_env>>
    /\ UNCHANGED <<chunkerVars, dedupVars, pipeVars, jobVars, pricingVars, webhookVars>>

NextStage ==
    \/ StageInvokeTranscriber
    \/ StageInvokeSummarizer

SpecStage == InitStage /\ [][NextStage]_vars

-----------------------------------------------------------------------------
(* Stage executor and handler claims *)

\* the invocation got as far as the provider call
ExecutorReached ==
    /\ st_pc = "done"
    /\ st_env.s3get
    /\ st_env.secret
    /\ \/ st_stage = "transcriber" /\ TranscriberKeys \subseteq st_event.has
       \/ st_stage = "summarizer" /\ st_event.status # "failed"
                                  /\ SummarizerKeys \subseteq st_event.has

\* every provider call is answered by a rate-limit error
AlwaysRateLimited ==
    \A k \in 1 .. max_retries :
        /\ ~st_env.answers[k].ok
        /\ st_env.answers[k].msg.marks \cap {"429", "rate_limit"} # {}

\* C3: when every provider call fails with a 429 / rate-limit error, the
\* executor makes exactly 3 calls, sleeps 2s then 4s and not after the third
\* call, and the handler returns status=failed.
C3_RateLimitBackoff ==
    (ExecutorReached /\ AlwaysRateLimited) =>
        /\ st_inv.calls = 3
        /\ st_inv.sleeps = <<2, 4>>
        /\ st_inv.kind = "returned"
        /\ st_inv.value.status = "failed"

C3_Witness ==
    /\ ExecutorReached /\ AlwaysRateLimited
    /\ st_stage = "summarizer"
    /\ st_env.answers[2].msg.marks = {"rate_limit"}
    /\ st_inv.calls = 3

\* the first provider call fails with an error that is neither rate limiting
\* nor a server fault nor a timeout
FirstErrorNotRetryable ==
    /\ ~st_env.answers[1].ok
    /\ ~IsRateLimit(st_env.answers[1].msg)
    /\ ~IsTranscriberServerError(st_env.answers[1].msg)

\* C4: when a provider call fails with an error that is neither rate limiting
\* nor a transient server fault, the executor makes exactly one provider call,
\* does not sleep, and the failure is surfaced without a second attempt.
C4_NonRetryableFailsAtOnce ==
    (ExecutorReached /\ FirstErrorNotRetryable) =>
        /\ st_inv.calls = 1
        /\ st_inv.sleeps = <<>>
        /\ st_inv.value.status = "failed"

\* the provider call fails after its retries
ProviderExhausted ==
    IF st_stage = "transcriber"
    THEN transcribe_audio(TRUE, st_env.answers).kind = "raised"
    ELSE generate_summary(TRUE, st_env.answers).kind = "raised"

\* something fails inside the handler: a missing input field, a storage get
\* or put, the credential lookup, or the provider after its retries
StageFault ==
    /\ st_pc = "done"
    /\ st_stage = "summarizer" => st_event.status # "failed"
    /\ \/ st_stage = "transcriber" /\ ~(TranscriberKeys \subseteq st_event.has)
       \/ st_stage = "summarizer" /\ ~(SummarizerKeys \subseteq st_event.has)
       \/ ~st_env.s3get
       \/ ~st_env.secret
       \/ ProviderExhausted
       \/ ~st_env.s3put

\* C5: whatever fails inside the transcription or summarization handler, the
\* handler raises nothing: it returns a result, and on a failure that result
\* has status=failed and carries an error message.
C5_HandlersNeverRaise ==
    st_pc = "done" =>
        /\ st_inv.kind = "returned"
        /\ st_inv.value.status \in {"success", "failed", "skipped"}
        /\ StageFault => /\ st_inv.value.status = "failed"
                         /\ st_inv.value.error # NoMsg
        /\ st_inv.value.status = "failed" => st_inv.put = NoPut

C5_Witness ==
    /\ StageFault
    /\ st_stage = "transcriber"
    /\ ~st_env.s3put /\ st_env.s3get /\ st_env.secret
    /\ ~ProviderExhausted
    /\ st_inv.kind = "returned"
    /\ st_inv.value.status = "failed"

-----------------------------------------------------------------------------
(* SpecDedup: deduplicate_action_items, one iteration of its loop per step *)

\* longest explored input list
MaxItems == 3

\* owner, due date and mention of the explored items
ItemProfiles ==
    { [owner |-> Unassigned, due_date |-> NotSpecified,
       mentioned_at |-> NoMention, chunk_id |-> 0],
      [owner |-> "Sarah", due_date |-> NotSpecified,
       mentioned_at |-> <<0, 0, 10, 0>>, chunk_id |-> 0],
      [owner |-> "Bob", due_date |-> "Friday",
       mentioned_at |-> <<9, 30, 19, 30>>, chunk_id |-> 1] }

DedupItems ==
    { [action |-> a, owner |-> p.owner, due_date |-> p.due_date,
       mentioned_at |-> p.mentioned_at, chunk_id |-> p.chunk_id] :
        a \in ActionTexts, p \in ItemProfiles }

InitDedup ==
    /\ dd_pc = "loop"
    /\ dd_input \in UNION {[1 .. n -> DedupItems] : n \in 0 .. MaxItems}
    /\ dd_idx = 0
    /\ deduplicated = <<>>
    /\ dd_prev = <<>>
    /\ ChunkerIdle /\ StageIdle /\ PipelineIdle /\ JobIdle /\ PricingIdle /\ WebhookIdle

\* an iteration that finds no similar accepted item: append
DedupAppend ==
    /\ dd_pc = "loop"
    /\ dd_idx < Len(dd_input)
    /\ FirstMatch(deduplicated, dd_input[dd_idx + 1]) = 0
    /\ dd_prev' = deduplicated
    /\ deduplicated' = DedupStep(deduplicated, dd_input[dd_idx + 1])
    /\ dd_idx' = dd_idx + 1
    /\ UNCHANGED <<dd_pc, dd_input>>
    /\ UNCHANGED <<chunkerVars, stageVars, pipeVars, jobVars, pricingVars, webhookVars>>

\* an iteration that finds a similar accepted item: merge into it
DedupMerge ==
    /\ dd_pc = "loop"
    /\ dd_idx < Len(dd_input)
    /\ FirstMatch(deduplicated, dd_input[dd_idx + 1]) # 0
    /\ dd_prev' = deduplicated
    /\ deduplicated' = DedupStep(deduplicated, dd_input[dd_idx + 1])
    /\ dd_idx' = dd_idx + 1
    /\ UNCHANGED <<dd_pc, dd_input>>
    /\ UNCHANGED <<chunkerVars, stageVars, pipeVars, jobVars, pricingVars, webhookVars>>

\* the loop is over (or the input is empty): return deduplicated
DedupReturn ==
    /\ dd_pc = "loop"
    /\ dd_idx = Len(dd_input)
    /\ dd_pc' = "returned"
    /\ UNCHANGED <<dd_input, dd_idx, deduplicated, dd_prev>>
    /\ UNCHANGED <<chunkerVars, stageVars, pipeVars, jobVars, pricingVars, webhookVars>>

NextDedup ==
    \/ DedupAppend
    \/ DedupMerge
    \/ DedupReturn

SpecDedup == InitDedup /\ [][NextDedup]_vars

-----------------------------------------------------------------------------
(* Deduplication claims *)

\* the item of the last iteration, and the accepted items it is similar to
LastItem == dd_input[dd_idx]
LastHits ==
    {k \in 1 .. Len(dd_prev) :
        ExceedsThreshold(similarity(LastItem.action, dd_prev[k].action))}

\* r1 >= r2 for two similarity ratios
RatioGeq(r1, r2) == r1.num * r2.den >= r2.num * r1.den

\* the accepted items of which the last iteration changed a field
LastChanged == {k \in 1 .. Len(dd_prev) : deduplicated[k] # dd_prev[k]}

\* the last iteration merged an item with an owner or due date to give
LastMergeFills(k) ==
    \/ LastItem.owner # Unassigned /\ dd_prev[k].owner = Unassigned
    \/ LastItem.due_date # NotSpecified /\ dd_prev[k].due_date = NotSpecified

\* C10: an incoming item similar to more than one accepted item is merged
\* into the accepted item of maximum similarity: only that item takes its owner
\* and due date.
C10_MergesIntoMostSimilar ==
    (dd_idx > 0 /\ Cardinality(LastHits) > 1) =>
        \A k \in LastChanged :
            \A j \in LastHits :
                RatioGeq(similarity(LastItem.action, dd_prev[k].action),
                         similarity(LastItem.action, dd_prev[j].action))

\* C10 as amended: an incoming item similar to one or more accepted items is
\* merged into the first of them in acceptance order: that item takes the
\* owner and due date it lacks, every other accepted item is left as it was
\* and nothing is appended.
C10_MergesIntoFirstSimilar ==
    (dd_idx > 0 /\ LastHits # {}) =>
        LET first == MinOf(LastHits)
        IN  /\ Len(deduplicated) = Len(dd_prev)
            /\ \A k \in 1 .. Len(dd_prev) :
                  k # first => deduplicated[k] = dd_prev[k]
            /\ (LastItem.owner # Unassigned /\ dd_prev[first].owner = Unassigned)
                  => deduplicated[first].owner = LastItem.owner
            /\ (LastItem.due_date # NotSpecified
                    /\ dd_prev[first].due_date = NotSpecified)
                  => deduplicated[first].due_date = LastItem.due_date

\* an item similar to two accepted items, closer to the second, fills the first
C10_Witness ==
    /\ dd_idx > 0
    /\ Cardinality(LastHits) > 1
    /\ \E j \in LastHits :
          /\ j # MinOf(LastHits)
          /\ ~RatioGeq(similarity(LastItem.action, dd_prev[MinOf(LastHits)].action),
                       similarity(LastItem.action, dd_prev[j].action))
    /\ LastMergeFills(MinOf(LastHits))
    /\ MinOf(LastHits) \in LastChanged

\* C11: a merge only fills defaults.  In every iteration, an accepted item's
\* owner changes only from "Unassigned" to the non-default owner of the
\* incoming item, its due date only from "Not specified" to the non-default
\* due date of the incoming item, and its action text never; so a non-default
\* value is never overwritten and no field goes back to its default.
C11_MergeOnlyFillsDefaults ==
    dd_idx > 0 =>
        /\ Len(deduplicated) >= Len(dd_prev)
        /\ \A k \in 1 .. Len(dd_prev) :
              /\ deduplicated[k].action = dd_prev[k].action
              /\ deduplicated[k].owner # dd_prev[k].owner =>
                    /\ dd_prev[k].owner = Unassigned
                    /\ LastItem.owner # Unassigned
                    /\ deduplicated[k].owner = LastItem.owner
              /\ deduplicated[k].due_date # dd_prev[k].due_date =>
                    /\ dd_prev[k].due_date = NotSpecified
                    /\ LastItem.due_date # NotSpecified
                    /\ deduplicated[k].due_date = LastItem.due_date

\* a duplicate of Bob, due Friday, met an accepted item of Sarah without a due
\* date: the owner stayed, the due date was filled
C11_Witness ==
    /\ dd_idx > 0
    /\ LastHits # {}
    /\ dd_prev[MinOf(LastHits)].owner = "Sarah"
    /\ dd_prev[MinOf(LastHits)].due_date = NotSpecified
    /\ LastItem.owner = "Bob"
    /\ deduplicated[MinOf(LastHits)].owner = "Sarah"
    /\ deduplicated[MinOf(LastHits)].due_date = "Friday"

\* the greatest similarity of the last item to an accepted item is at least,
\* respectively above, the threshold
LastReachesThreshold ==
    \E k \in 1 .. Len(dd_prev) :
        LET r == similarity(LastItem.action, dd_prev[k].action)
        IN  r.num * SIM_DEN >= SIM_NUM * r.den
LastAboveThreshold ==
    \E k \in 1 .. Len(dd_prev) :
        LET r == similarity(LastItem.action, dd_prev[k].action)
        IN  r.num * SIM_DEN > SIM_NUM * r.den

\* C12: two action items of similarity >= 0.8, exactly 0.8 included, are
\* merged into one entry, and two items of similarity < 0.8 stay two entries.
C12_ThresholdInclusive ==
    dd_idx > 0 =>
        /\ LastReachesThreshold => Len(deduplicated) = Len(dd_prev)
        /\ ~LastReachesThreshold => Len(deduplicated) = Len(dd_prev) + 1

\* C12 as amended: an item is merged when its similarity to an accepted item
\* is above 0.8; at exactly 0.8 and below it is kept as an entry of its own.
C12_ThresholdExclusive ==
    dd_idx > 0 =>
        /\ LastAboveThreshold => Len(deduplicated) = Len(dd_prev)
        /\ ~LastAboveThreshold => Len(deduplicated) = Len(dd_prev) + 1

\* "abcdef" met the accepted "bcde", similarity exactly 0.8, and was appended
C12_Witness ==
    /\ dd_idx = 2
    /\ Len(dd_prev) = 1
    /\ similarity(LastItem.action, dd_prev[1].action) = [num |-> 8, den |-> 10]
    /\ Len(deduplicated) = 2

-----------------------------------------------------------------------------
(* SpecPipeline: the chunks of one job through transcription, summarization, *)
(* merge and notification, with the failure router on a raised exception     *)

\* most chunks of the explored job
MaxChunks == 3

\* chunk descriptor i of a long recording planned with the default settings
PipelineChunk(i) ==
    [chunk_id   |-> i,
     start_time |-> IF i = 0 THEN 0 ELSE (i * 600) - 30,
     end_time   |-> (IF i = 0 THEN 0 ELSE (i * 600) - 30) + 600,
     has        |-> TranscriberKeys]

\* the Job Record as the audio extractor left it
InitialRecord ==
    [status |-> "audio_extracted",
     error_stage |-> Absent,
     error_message |-> NoMsg,
     final_summary |-> <<>>,
     action_items |-> <<>>,
     final_result_s3_path |-> <<>>,
     total_cost |-> 0]

NoOutcome == CombinerOutcome("none", NoValue, NoMsg, NoPut, <<>>, <<>>, <<>>)

\* the transcriber's environment: everything works, or the provider keeps
\* answering with a rate-limit error
PipelineTranscriberEnvs ==
    { StageGoodEnv,
      [StageGoodEnv EXCEPT
          !.answers = [k \in 1 .. max_retries |->
                          Answer(FALSE, Msg({"429", "rate_limit"}, 160))]] }

\* the response of the provider for chunk c: two items for an even chunk,
\* and for an odd chunk one item that is similar to the first item of an even
\* chunk
PipelineResponses(c) ==
    IF c % 2 = 0
    THEN { [raw |-> <<"raw", c>>, markers |-> 1,
            summary_part |-> <<"summary", c>>, none |-> FALSE,
            lines |-> << Line(TRUE, <<"b", "c", "d", "e">>, Absent, Absent),
                         Line(TRUE, <<"x", "y", "z">>, "Sarah", Absent) >>] }
    ELSE { [raw |-> <<"raw", c>>, markers |-> 1,
            summary_part |-> <<"summary", c>>, none |-> FALSE,
            lines |-> << Line(TRUE, <<"A", "b", "c", "d", "e">>,
                              "Bob", "Friday") >>] }

\* the summarizer's environment: everything works, or the provider keeps
\* answering with an authentication error
PipelineSummarizerEnvs(c) ==
    { [s3get |-> TRUE, secret |-> TRUE, s3put |-> TRUE, response |-> r,
       answers |-> [k \in 1 .. max_retries |-> AnswerOk]] :
          r \in PipelineResponses(c) }
    \cup
    { [s3get |-> TRUE, secret |-> TRUE, s3put |-> TRUE,
       response |-> CHOOSE r \in PipelineResponses(c) : TRUE,
       answers |-> [k \in 1 .. max_retries |-> Answer(FALSE, Msg({"401"}, 70))]] }

\* the combiner's environment: which summary downloads fail (none, one, all),
\* and whether the final put and the Job Record writes work
CombinerEnvs(ids) ==
    [get_fails : {{}, ids} \cup {{c} : c \in ids},
     s3put : BOOLEAN, db_update : BOOLEAN, db_failed_write : BOOLEAN]

FailureHandlerEnvs == [db_update : BOOLEAN, metric : BOOLEAN]

ChunkIndexes == DOMAIN chunks
ChunkIds == {chunks[k].chunk_id : k \in ChunkIndexes}

AllTranscribed == \A k \in ChunkIndexes : transcripts[k] # NoValue
AllSummarized == \A k \in ChunkIndexes : summaries[k] # NoValue

\* keys of the workflow's state data when a failure is caught
WorkflowKeys ==
    {"downloadResult", "audioResult", "chunkResult"}
        \cup (IF AllTranscribed THEN {"transcripts"} ELSE {})
        \cup (IF AllTranscribed /\ AllSummarized THEN {"summaries"} ELSE {})
        \cup (IF comb_out.kind = "returned" THEN {"finalResult"} ELSE {})

InitPipeline ==
    /\ wf_state = "FanOut"
    /\ wf_error = NoMsg
    /\ chunks \in {[k \in 1 .. n |-> PipelineChunk(k - 1)] : n \in 0 .. MaxChunks}
    /\ transcripts = [k \in DOMAIN chunks |-> NoValue]
    /\ summaries = [k \in DOMAIN chunks |-> NoValue]
    /\ s3 = <<>>
    /\ table = InitialRecord
    /\ comb_event = <<>>
    /\ comb_out = NoOutcome
    /\ metrics = <<>>
    /\ ChunkerIdle /\ StageIdle /\ DedupIdle /\ JobIdle /\ PricingIdle /\ WebhookIdle

\* the workflow invokes the transcriber for chunk k
Transcribe(k) ==
    /\ wf_state = "FanOut"
    /\ transcripts[k] = NoValue
    /\ \E env \in PipelineTranscriberEnvs :
          LET inv == TranscriberHandler(chunks[k], env)
          IN  IF inv.kind = "returned"
              THEN /\ transcripts' = [transcripts EXCEPT ![k] = inv.value]
                   /\ s3' = ApplyPut(s3, inv.put)
                   /\ UNCHANGED <<wf_state, wf_error>>
              ELSE /\ wf_state' = "HandleFailure"
                   /\ wf_error' = inv.error
                   /\ UNCHANGED <<transcripts, s3>>
    /\ UNCHANGED <<chunks, summaries, table, comb_event, comb_out, metrics>>
    /\ UNCHANGED <<chunkerVars, stageVars, dedupVars, jobVars, pricingVars, webhookVars>>

\* the workflow invokes the summarizer on the transcript result of chunk k
Summarize(k) ==
    /\ wf_state = "FanOut"
    /\ transcripts[k] # NoValue
    /\ summaries[k] = NoValue
    /\ \E env \in PipelineSummarizerEnvs(chunks[k].chunk_id) :
          LET inv == SummarizerHandler(transcripts[k], env)
          IN  IF inv.kind = "returned"
              THEN /\ summaries' = [summaries EXCEPT ![k] = inv.value]
                   /\ s3' = ApplyPut(s3, inv.put)
                   /\ UNCHANGED <<wf_state, wf_error>>
              ELSE /\ wf_state' = "HandleFailure"
                   /\ wf_error' = inv.error
                   /\ UNCHANGED <<summaries, s3>>
    /\ UNCHANGED <<chunks, transcripts, table, comb_event, comb_out, metrics>>
    /\ UNCHANGED <<chunkerVars, stageVars, dedupVars, jobVars, pricingVars, webhookVars>>

\* every chunk has its summary result: the workflow invokes the combiner with
\* the summaries in some arrival order
Combine ==
    /\ wf_state = "FanOut"
    /\ AllTranscribed
    /\ AllSummarized
    /\ \E order \in Permutations(ChunkIndexes), env \in CombinerEnvs(ChunkIds) :
          LET event == [summaries |-> [j \in ChunkIndexes |-> summaries[order[j]]],
                        transcripts |-> transcripts]
              out == CombinerHandler(event, env, s3, table)
          IN  /\ comb_event' = event.summaries
              /\ comb_out' = out
              /\ table' = out.record
              /\ s3' = ApplyPut(s3, out.put)
              /\ wf_error' = out.error
              /\ wf_state' = IF out.kind = "returned" THEN "SendNotification"
                             ELSE "HandleFailure"
    /\ UNCHANGED <<chunks, transcripts, summaries, metrics>>
    /\ UNCHANGED <<chunkerVars, stageVars, dedupVars, jobVars, pricingVars, webhookVars>>

\* notification_sender.lambda_handler: it catches every exception, returns a
\* result and writes nothing to the Job Record
Notify ==
    /\ wf_state = "SendNotification"
    /\ wf_state' = "Succeeded"
    /\ UNCHANGED <<wf_error, chunks, transcripts, summaries, s3, table,
                   comb_event, comb_out, metrics>>
    /\ UNCHANGED <<chunkerVars, stageVars, dedupVars, jobVars, pricingVars, webhookVars>>

\* the workflow caught an exception of a stage: it invokes the failure handler
HandleFailure ==
    /\ wf_state = "HandleFailure"
    /\ \E env \in FailureHandlerEnvs :
          LET r == FailureHandler([has_meeting_id |-> TRUE, keys |-> WorkflowKeys,
                                   error |-> wf_error], env, table)
          IN  /\ table' = r.record
              /\ metrics' = metrics \o r.metric
    /\ wf_state' = "Failed"
    /\ UNCHANGED <<wf_error, chunks, transcripts, summaries, s3, comb_event,
                   comb_out>>
    /\ UNCHANGED <<chunkerVars, stageVars, dedupVars, jobVars, pricingVars, webhookVars>>

NextPipeline ==
    \/ \E k \in ChunkIndexes : Transcribe(k)
    \/ \E k \in ChunkIndexes : Summarize(k)
    \/ Combine
    \/ Notify
    \/ HandleFailure

SpecPipeline == InitPipeline /\ [][NextPipeline]_vars

-----------------------------------------------------------------------------
(* Claims on the pipeline *)

Merged == comb_out.kind # "none"

\* the results chunk k can get from its own stage invocations
OwnTranscripts(k) ==
    {TranscriberHandler(chunks[k], env).value : env \in PipelineTranscriberEnvs}
OwnSummaries(k) ==
    {SummarizerHandler(transcripts[k], env).value :
        env \in PipelineSummarizerEnvs(chunks[k].chunk_id)}

\* C6: fault isolation in the fan-out.  A failed unit of one chunk never
\* stops or alters another chunk: while the fan-out runs, every pending unit
\* of every chunk can still be executed whatever the other chunks did; a
\* result, once produced, is never changed by a later step; each result is one
\* its own chunk's invocation produces; the job is aborted only from the merge
\* stage, never by a chunk; once every chunk has its summary result the merge
\* can be entered, and at the merge every chunk has a transcript result
\* (success, failed) and a summary result (success, failed, skipped).
C6_FaultIsolation ==
    /\ [](/\ \A k \in ChunkIndexes :
                /\ (wf_state = "FanOut" /\ transcripts[k] = NoValue)
                      => ENABLED Transcribe(k)
                /\ (wf_state = "FanOut" /\ transcripts[k] # NoValue
                                        /\ summaries[k] = NoValue)
                      => ENABLED Summarize(k)
                /\ transcripts[k] # NoValue => transcripts[k] \in OwnTranscripts(k)
                /\ summaries[k] # NoValue => summaries[k] \in OwnSummaries(k)
          /\ wf_state \in {"HandleFailure", "Failed"} => comb_out.kind = "raised"
          /\ (wf_state = "FanOut" /\ AllTranscribed /\ AllSummarized)
                => ENABLED Combine
          /\ Merged =>
                \A k \in ChunkIndexes :
                    /\ transcripts[k].status \in {"success", "failed"}
                    /\ summaries[k].status \in {"success", "failed", "skipped"})
    /\ [][\A k \in ChunkIndexes :
             /\ transcripts[k] # NoValue => transcripts'[k] = transcripts[k]
             /\ summaries[k] # NoValue => summaries'[k] = summaries[k]]_vars

\* the merge was entered after one chunk failed in transcription (and was
\* skipped by the summarizer), one failed in summarization and one succeeded
C6_Witness ==
    /\ Merged
    /\ \E i, j, k \in ChunkIndexes :
          /\ transcripts[i].status = "failed" /\ summaries[i].status = "skipped"
          /\ transcripts[j].status = "success" /\ summaries[j].status = "failed"
          /\ summaries[k].status = "success"

\* the merge ran on at least one successful summary result and at least one
\* failed or skipped one
PartialSuccess ==
    /\ Merged
    /\ \E k \in DOMAIN comb_event : comb_event[k].status = "success"
    /\ \E k \in DOMAIN comb_event : comb_event[k].status \in {"failed", "skipped"}

SuccessfulIds == {summaries[k].chunk_id : k \in {j \in ChunkIndexes :
                                                 summaries[j].status = "success"}}

\* the narrative part the summarizer stored for chunk c
NarrativePart(c) ==
    <<s3[SummaryKey(c)].time_range, s3[SummaryKey(c)].summary>>

\* C7: partial success completes.  When the merge runs on at least one
\* successful and at least one failed or skipped summary result, nothing but a
\* failing write of the Final Result or of the Job Record keeps the job from
\* completing: the merge does not raise for the failed chunks, and when its
\* two writes work the Job Record has status=completed and the Final Result
\* (narrative, action items, chunk count, summarization cost) is built from
\* successful chunks only.
C7_PartialSuccessCompletes ==
    PartialSuccess =>
        /\ comb_out.kind = "raised" => "ClientError" \in comb_out.error.marks
        /\ comb_out.kind = "returned" =>
              /\ table.status = "completed"
              /\ table.final_summary = comb_out.value.final_summary
              /\ FinalResultKey \in DOMAIN s3
              /\ s3[FinalResultKey] = comb_out.value
              /\ \A p \in DOMAIN comb_out.value.final_summary :
                    \E c \in SuccessfulIds :
                        comb_out.value.final_summary[p] = NarrativePart(c)
              /\ \A p \in DOMAIN comb_out.value.action_items :
                    comb_out.value.action_items[p].chunk_id \in SuccessfulIds
              /\ comb_out.value.total_chunks_processed <= Cardinality(SuccessfulIds)
              /\ comb_out.value.total_chunks_processed
                    = Len(comb_out.value.final_summary)

\* a job with a successful, a failed and a skipped chunk completed
C7_Witness ==
    /\ PartialSuccess
    /\ wf_state = "Succeeded"
    /\ table.status = "completed"
    /\ Len(table.final_summary) >= 1
    /\ \E k \in DOMAIN comb_event : comb_event[k].status = "failed"
    /\ \E k \in DOMAIN comb_event : comb_event[k].status = "skipped"

\* the merge ran on no successful summary result
ZeroSuccess ==
    /\ Merged
    /\ \A k \in DOMAIN comb_event : comb_event[k].status # "success"

\* C8: zero successes is a hard failure.  When no summary result has
\* status=success (the empty list included) the merge raises its "no
\* successful summaries" error, stores no Final Result and never writes
\* status=completed; the workflow routes the error to the failure handler, and
\* when the handler's write of the Job Record works the record ends with
\* status=failed and error_stage="result_combination" (when it does not work
\* the record stays as the merge left it).
C8_ZeroSuccessFails ==
    ZeroSuccess =>
        /\ comb_out.kind = "raised"
        /\ "ValueError" \in comb_out.error.marks
        /\ comb_out.put = NoPut
        /\ FinalResultKey \notin DOMAIN s3
        /\ table.status # "completed"
        /\ comb_out.record.status \in {"failed", InitialRecord.status}
        /\ wf_state \in {"HandleFailure", "Failed"}
        /\ wf_state = "HandleFailure" => table = comb_out.record
        /\ wf_state = "Failed" =>
              \/ /\ table.status = "failed"
                 /\ table.error_stage = "result_combination"
                 /\ table.error_message = Truncate(comb_out.error)
              \/ table = comb_out.record

\* a job whose chunks all failed or were skipped ended failed at the merge
C8_Witness ==
    /\ ZeroSuccess
    /\ Len(comb_event) >= 2
    /\ wf_state = "Failed"
    /\ table.status = "failed"
    /\ table.error_stage = "result_combination"

\* the chunk ids of a sequence of results or items
IdsOf(xs) == [k \in DOMAIN xs |-> xs[k].chunk_id]

\* the items of xs that belong to chunk c, in their order
RECURSIVE OfChunk(_, _)
OfChunk(xs, c) ==
    IF xs = <<>> THEN <<>>
    ELSE IF Head(xs).chunk_id = c THEN <<Head(xs)>> \o OfChunk(Tail(xs), c)
    ELSE OfChunk(Tail(xs), c)

\* C9: the merge order depends only on the chunk index.  Whatever the order
\* of the summaries list, the successful summaries are processed in ascending
\* chunk_id, the parts of the narrative are those of the loaded chunks in
\* ascending chunk_id, and the collected action items are in ascending
\* chunk_id and, within a chunk, in the order of the chunk's stored summary.
C9_NarrativeOrder ==
    (Merged /\ ~ZeroSuccess) =>
        /\ \A a, b \in DOMAIN comb_out.sorted :
              a < b => comb_out.sorted[a].chunk_id < comb_out.sorted[b].chunk_id
        /\ {comb_out.sorted[a].chunk_id : a \in DOMAIN comb_out.sorted}
              = SuccessfulIds
        /\ \A a, b \in DOMAIN comb_out.collected :
              a < b => comb_out.collected[a].chunk_id
                          <= comb_out.collected[b].chunk_id
        /\ \A c \in SuccessfulIds :
              OfChunk(comb_out.collected, c) \in
                  {<<>>, TaggedItems(s3[SummaryKey(c)], c)}
        /\ comb_out.kind = "returned" =>
              \E ids \in SUBSET SuccessfulIds :
                  /\ Len(comb_out.value.final_summary) = Cardinality(ids)
                  /\ \A p \in DOMAIN comb_out.value.final_summary :
                        \E c \in ids :
                            /\ Cardinality({d \in ids : d < c}) = p - 1
                            /\ comb_out.value.final_summary[p] = NarrativePart(c)

\* three successful summaries arrived in the order 2, 0, 1 and were merged
\* into a narrative of three parts, with two action items of one chunk
C9_Witness ==
    /\ comb_out.kind = "returned"
    /\ Len(comb_event) = 3
    /\ IdsOf(comb_event) = <<2, 0, 1>>
    /\ Len(comb_out.value.final_summary) = 3
    /\ \E c \in SuccessfulIds : Len(OfChunk(comb_out.collected, c)) = 2

-----------------------------------------------------------------------------
(* SpecJob: the Job Record of one job, written by the entry handler and by   *)
(* the stages the workflow runs; one step per write to the record            *)

\* lengths of the messages of ingest errors; they quote the submitted URI
IngestErrorLengths == {80, 1040}

\* the item the entry handler puts
NewRecord == [InitialRecord EXCEPT !.status = "initiated"]

\* variant: the update leaves the status as it is
WriteStatus_Keep(rec, status) == rec

\* update_status(meeting_id, status, ...)
WriteStatus(rec, status) == [rec EXCEPT !.status = status]

\* a failure write without a stage tag (entry handler, ingester)
UntaggedFailedRecord(rec, error) ==
    [rec EXCEPT !.status = "failed", !.error_message = error]

\* update_status(meeting_id, 'failed', error_stage=..., error_message=str(e))
StageFailedRecord(rec, error_stage, error) ==
    [rec EXCEPT !.status = "failed", !.error_stage = error_stage,
                !.error_message = error]

\* "Unexpected error: " + str(e)
Unexpected(msg) == [msg EXCEPT !.len = @ + 18]

\* the Final Result of a job, as far as the Job Record keeps it
JobFinalResult ==
    [final_summary |-> <<"narrative">>, action_items |-> <<>>,
     cost_breakdown |-> [total_cost |-> 51]]

jobRest == <<chunks, transcripts, summaries, s3, comb_event, comb_out>>

\* a write of the Job Record
JobWrite(rec, by, stamped) ==
    /\ table' = rec
    /\ status_log' = Append(status_log, rec.status)
    /\ write_log' = Append(write_log, [by |-> by, status |-> rec.status,
                                       stamped |-> stamped])

\* an exception of a stage reaches the workflow, which goes to its catch state
JobRaise(msg) ==
    /\ wf_state' = "HandleFailure"
    /\ wf_error' = msg
    /\ job_pc' = "enter"
    /\ UNCHANGED wf_keys

\* a stage returns its result under `key`; the workflow goes on to `next`
JobReturn(keys, next) ==
    /\ wf_state' = next
    /\ wf_keys' = wf_keys \cup keys
    /\ job_pc' = "enter"
    /\ UNCHANGED wf_error

InitJob ==
    /\ eh_kind \in {"submit", "webhook"}
    /\ eh_pc = "start_execution"
    /\ job_pc = "idle"
    /\ wf_keys = {}
    /\ status_log = <<"initiated">>
    /\ write_log = <<[by |-> "entry", status |-> "initiated", stamped |-> TRUE]>>
    /\ wf_state = "NotStarted"
    /\ wf_error = NoMsg
    /\ table = NewRecord
    /\ metrics = <<>>
    /\ chunks = <<>> /\ transcripts = <<>> /\ summaries = <<>> /\ s3 = <<>>
    /\ comb_event = <<>> /\ comb_out = <<>>
    /\ ChunkerIdle /\ StageIdle /\ DedupIdle /\ PricingIdle /\ WebhookIdle

\* entry handler: stepfunctions.start_execution.  When it fails the submit
\* handler answers 500 and the webhook handler writes failed (a write that can
\* fail in turn, which the outer except clause answers with 500)
EntryStartExecution ==
    /\ eh_pc = "start_execution"
    /\ \E ok \in BOOLEAN, ok2 \in BOOLEAN :
          IF ok
          THEN /\ wf_state' = "Ingest"
               /\ job_pc' = "enter"
               /\ eh_pc' = "update"
               /\ UNCHANGED <<table, status_log, write_log>>
          ELSE /\ eh_pc' = "done"
               /\ UNCHANGED <<wf_state, job_pc>>
               /\ IF eh_kind = "webhook" /\ ok2
                  THEN JobWrite(UntaggedFailedRecord(table,
                                                     Msg({"ClientError"}, 120)), "entry", FALSE)
                  ELSE UNCHANGED <<table, status_log, write_log>>
    /\ UNCHANGED <<eh_kind, wf_keys, wf_error, metrics>>
    /\ UNCHANGED <<jobRest, chunkerVars, stageVars, dedupVars, pricingVars, webhookVars>>

\* entry handler: the update after the start, status 'processing'.  When the
\* update fails the submit handler answers 500 and the webhook handler tries
\* to write failed
EntryUpdate ==
    /\ eh_pc = "update"
    /\ \E ok \in BOOLEAN, ok2 \in BOOLEAN :
          IF ok
          THEN JobWrite(WriteStatus(table, "processing"), "entry", eh_kind = "submit")
          ELSE IF eh_kind = "webhook" /\ ok2
          THEN JobWrite(UntaggedFailedRecord(table, Msg({"ClientError"}, 120)), "entry", FALSE)
          ELSE UNCHANGED <<table, status_log, write_log>>
    /\ eh_pc' = "done"
    /\ UNCHANGED <<eh_kind, job_pc, wf_keys, wf_state, wf_error, metrics>>
    /\ UNCHANGED <<jobRest, chunkerVars, stageVars, dedupVars, pricingVars, webhookVars>>

\* s3_video_ingester: validation, then status 'downloading'; a validation
\* error is written as failed, without a stage, and raised
IngesterBegin ==
    /\ wf_state = "Ingest" /\ eh_kind = "submit" /\ job_pc = "enter"
    /\ \/ /\ JobWrite(WriteStatus(table, "downloading"), "ingester", TRUE)
          /\ job_pc' = "copy"
          /\ UNCHANGED <<wf_state, wf_error, wf_keys>>
       \/ \E n \in IngestErrorLengths,
             kind \in {"ValueError", "FileNotFoundError", "PermissionError"} :
             /\ JobWrite(UntaggedFailedRecord(table, Msg({kind}, n)), "ingester", TRUE)
             /\ JobRaise(Msg({kind}, n))
    /\ UNCHANGED <<eh_kind, eh_pc, metrics>>
    /\ UNCHANGED <<jobRest, chunkerVars, stageVars, dedupVars, pricingVars, webhookVars>>

\* s3_video_ingester: the copy, then status 'processing' and the result
IngesterCopy ==
    /\ wf_state = "Ingest" /\ eh_kind = "submit" /\ job_pc = "copy"
    /\ \/ /\ JobWrite(WriteStatus(table, "processing"), "ingester", TRUE)
          /\ JobReturn({"downloadResult"}, "ExtractAudio")
       \/ /\ JobWrite(UntaggedFailedRecord(table,
                                           Unexpected(Msg({"ClientError"}, 120))), "ingester", TRUE)
          /\ JobRaise(Msg({"ClientError"}, 120))
    /\ UNCHANGED <<eh_kind, eh_pc, metrics>>
    /\ UNCHANGED <<jobRest, chunkerVars, stageVars, dedupVars, pricingVars, webhookVars>>

\* video_downloader: status 'downloading'
DownloaderBegin ==
    /\ wf_state = "Ingest" /\ eh_kind = "webhook" /\ job_pc = "enter"
    /\ JobWrite(WriteStatus(table, "downloading"), "downloader", TRUE)
    /\ job_pc' = "download"
    /\ UNCHANGED <<eh_kind, eh_pc, wf_state, wf_error, wf_keys, metrics>>
    /\ UNCHANGED <<jobRest, chunkerVars, stageVars, dedupVars, pricingVars, webhookVars>>

\* video_downloader: the download and upload, then status 'video_downloaded'
\* and the result; an error is written as failed with its stage and raised
DownloaderFinish ==
    /\ wf_state = "Ingest" /\ eh_kind = "webhook" /\ job_pc = "download"
    /\ \/ /\ JobWrite(WriteStatus(table, "video_downloaded"), "downloader", TRUE)
          /\ JobReturn({"downloadResult"}, "ExtractAudio")
       \/ /\ JobWrite(StageFailedRecord(table, "video_download",
                                        Msg({"HttpError"}, 300)), "downloader", TRUE)
          /\ JobRaise(Msg({"HttpError"}, 300))
    /\ UNCHANGED <<eh_kind, eh_pc, metrics>>
    /\ UNCHANGED <<jobRest, chunkerVars, stageVars, dedupVars, pricingVars, webhookVars>>

\* audio_extractor: status 'extracting_audio'
ExtractorBegin ==
    /\ wf_state = "ExtractAudio" /\ job_pc = "enter"
    /\ JobWrite(WriteStatus(table, "extracting_audio"), "extractor", TRUE)
    /\ job_pc' = "extract"
    /\ UNCHANGED <<eh_kind, eh_pc, wf_state, wf_error, wf_keys, metrics>>
    /\ UNCHANGED <<jobRest, chunkerVars, stageVars, dedupVars, pricingVars, webhookVars>>

\* audio_extractor: the extraction, then status 'audio_extracted' and the
\* result; an error is written as failed with its stage and raised
ExtractorFinish ==
    /\ wf_state = "ExtractAudio" /\ job_pc = "extract"
    /\ \/ /\ JobWrite(WriteStatus(table, "audio_extracted"), "extractor", TRUE)
          /\ JobReturn({"audioResult"}, "ChunkAudio")
       \/ \E kind \in {"ValueError", "RuntimeError"} :
             /\ JobWrite(StageFailedRecord(table, "audio_extraction",
                                           Msg({kind}, 70)), "extractor", TRUE)
             /\ JobRaise(Msg({kind}, 70))
    /\ UNCHANGED <<eh_kind, eh_pc, metrics>>
    /\ UNCHANGED <<jobRest, chunkerVars, stageVars, dedupVars, pricingVars, webhookVars>>

\* audio_chunker: it returns the chunks or raises; it never writes the record
JobChunk ==
    /\ wf_state = "ChunkAudio"
    /\ \/ JobReturn({"chunkResult"}, "FanOut")
       \/ JobRaise(Msg({"RuntimeError"}, 30))
    /\ UNCHANGED <<eh_kind, eh_pc, table, status_log, write_log,
                   metrics>>
    /\ UNCHANGED <<jobRest, chunkerVars, stageVars, dedupVars, pricingVars, webhookVars>>

\* transcriber and summarizer per chunk: they return results, never raise and
\* never write the record
JobFanOut ==
    /\ wf_state = "FanOut"
    /\ JobReturn({"transcripts", "summaries"}, "Combine")
    /\ UNCHANGED <<eh_kind, eh_pc, table, status_log, write_log,
                   metrics>>
    /\ UNCHANGED <<jobRest, chunkerVars, stageVars, dedupVars, pricingVars, webhookVars>>

\* result_combiner: it writes completed and returns, or writes failed (when
\* that write works) and raises
JobCombine ==
    /\ wf_state = "Combine"
    /\ \/ /\ JobWrite(CompletedRecord(table, JobFinalResult), "combiner", TRUE)
          /\ JobReturn({"finalResult"}, "SendNotification")
       \/ \E error \in {Msg({"ValueError"}, 34), Msg({"ClientError"}, 120)},
             db_failed_write \in BOOLEAN :
             /\ IF db_failed_write
                THEN JobWrite(CombinerFailedRecord(table, error), "combiner", FALSE)
                ELSE UNCHANGED <<table, status_log, write_log>>
             /\ JobRaise(error)
    /\ UNCHANGED <<eh_kind, eh_pc, metrics>>
    /\ UNCHANGED <<jobRest, chunkerVars, stageVars, dedupVars, pricingVars, webhookVars>>

\* notification_sender: it never raises and never writes the record
JobNotify ==
    /\ wf_state = "SendNotification"
    /\ wf_state' = "Succeeded"
    /\ UNCHANGED <<eh_kind, eh_pc, job_pc, wf_keys, wf_error, table, status_log,
                   write_log, metrics>>
    /\ UNCHANGED <<jobRest, chunkerVars, stageVars, dedupVars, pricingVars, webhookVars>>

\* failure_handler on the workflow's state data and the caught error
JobHandleFailure ==
    /\ wf_state = "HandleFailure"
    /\ \E env \in FailureHandlerEnvs :
          LET r == FailureHandler([has_meeting_id |-> TRUE, keys |-> wf_keys,
                                   error |-> wf_error], env, table)
          IN  /\ IF env.db_update THEN JobWrite(r.record, "failure_handler", TRUE)
                 ELSE UNCHANGED <<table, status_log, write_log>>
              /\ metrics' = metrics \o r.metric
    /\ wf_state' = "Failed"
    /\ UNCHANGED <<eh_kind, eh_pc, job_pc, wf_keys, wf_error>>
    /\ UNCHANGED <<jobRest, chunkerVars, stageVars, dedupVars, pricingVars, webhookVars>>

NextJob ==
    \/ EntryStartExecution
    \/ EntryUpdate
    \/ IngesterBegin
    \/ IngesterCopy
    \/ DownloaderBegin
    \/ DownloaderFinish
    \/ ExtractorBegin
    \/ ExtractorFinish
    \/ JobChunk
    \/ JobFanOut
    \/ JobCombine
    \/ JobNotify
    \/ JobHandleFailure

SpecJob == InitJob /\ [][NextJob]_vars

\* the statuses after which no transition is expected
TerminalStatuses == {"completed", "failed"}

\* C13: terminal states are absorbing: once the status of the Job Record is
\* completed or failed, no later write (the entry handler's update after the
\* start, a stage, the failure handler) sets a different status, under every
\* interleaving of the entry handler with the workflow
C13_TerminalAbsorbing ==
    \A i \in 1..(Len(status_log) - 1) :
        status_log[i] \in TerminalStatuses => status_log[i + 1] = status_log[i]

\* the place of a status in the order initiated -> downloading ->
\* processing/extracting_audio -> audio_extracted -> completed; 0 outside it
StatusRank(status) ==
    CASE status = "initiated" -> 1
      [] status = "downloading" -> 2
      [] status \in {"processing", "extracting_audio"} -> 3
      [] status = "audio_extracted" -> 4
      [] status = "completed" -> 5
      [] OTHER -> 0

\* C14: status progression order: the statuses written to the Job Record of
\* one job, failed apart, are statuses of the order initiated -> downloading
\* -> processing/extracting_audio -> audio_extracted -> completed, and no
\* write sets a status that precedes the record's current status in it
C14_StatusProgression ==
    /\ \A i \in 1..Len(status_log) :
          status_log[i] # "failed" => StatusRank(status_log[i]) > 0
    /\ \A i \in 1..(Len(status_log) - 1) :
          (status_log[i] # "failed" /\ status_log[i + 1] # "failed")
             => StatusRank(status_log[i]) <= StatusRank(status_log[i + 1])

\* the stage tags of a failed Job Record
StageTags ==
    {"video_download", "audio_extraction", "audio_chunking", "transcription",
     "summarization", "result_combination", "notification"}

\* C15: failed records carry a stage tag: whenever the Job Record has status
\* failed it has an error_stage, one of the seven stage tags, and an
\* error_message
C15_FailedCarriesStage ==
    (wf_state # "idle" /\ eh_kind # "none" /\ table.status = "failed")
       => (table.error_stage \in StageTags /\ table.error_message # NoMsg)

\* C16: bounded error message: the error_message of the Job Record is at most
\* 1000 characters long, whichever component wrote it
C16_ErrorMessageBounded ==
    (wf_state # "idle" /\ eh_kind # "none")
       => table.error_message.len <= ERROR_MESSAGE_LIMIT

-----------------------------------------------------------------------------
(* SpecRouter: one invocation of the failure handler, over every event *)

\* the keys the failure handler looks for in the event
UpstreamKeys ==
    {"downloadResult", "audioResult", "chunkResult", "transcripts", "summaries",
     "finalResult"}

\* the error of the failed state: a short message and one over the limit
RouterErrors == {Msg({"ValueError"}, 34), Msg({"States.TaskFailed"}, 1500)}

\* the nested outputs searched for the job id, in the order of the search
NestedPlaces == <<"downloadResult", "audioResult", "chunkResult">>

\* events: the upstream outputs present, the places that carry a meeting_id
\* ("top" for the event itself), the nested outputs that are not a mapping
\* (null, say), and the error
RouterEvents ==
    {e \in [keys : SUBSET UpstreamKeys,
            ids : SUBSET {"top", "downloadResult", "audioResult",
                          "chunkResult"},
            non_mapping : {{}, {"audioResult"}},
            error : RouterErrors] :
        /\ e.ids \subseteq {"top"} \cup e.keys
        /\ e.non_mapping \subseteq e.keys
        /\ e.ids \cap e.non_mapping = {}}

\* the search through the nested outputs: .get on a value that is not a
\* mapping raises
RECURSIVE LookupNested(_, _)
LookupNested(event, places) ==
    IF places = <<>> THEN "none"
    ELSE LET p == Head(places)
         IN  IF p \notin event.keys THEN LookupNested(event, Tail(places))
             ELSE IF p \in event.non_mapping THEN "raised"
             ELSE IF p \in event.ids THEN "found"
             ELSE LookupNested(event, Tail(places))

\* the extraction of meeting_id: found, none, or raised
ExtractMeetingId(event) ==
    IF "top" \in event.ids THEN "found"
    ELSE LookupNested(event, NestedPlaces)

\* failure_handler.lambda_handler with its outer try: an exception of the
\* extraction is caught and answered with status error
FailureLambdaHandler(event, env, rec) ==
    LET meeting_id == ExtractMeetingId(event)
    IN  IF meeting_id = "raised"
        THEN [status |-> "error", record |-> rec, metric |-> <<>>]
        ELSE FailureHandler([has_meeting_id |-> meeting_id = "found",
                             keys |-> event.keys, error |-> event.error],
                            env, rec)

InitRouter ==
    /\ st_pc = "ready"
    /\ st_stage = "failure_handler"
    /\ st_event \in RouterEvents
    /\ st_env \in FailureHandlerEnvs
    /\ st_inv = <<>>
    /\ ChunkerIdle /\ DedupIdle /\ PipelineIdle /\ JobIdle /\ PricingIdle /\ WebhookIdle

RouterInvoke ==
    /\ st_pc = "ready"
    /\ st_stage = "failure_handler"
    /\ st_inv' = FailureLambdaHandler(st_event, st_env, InitialRecord)
    /\ st_pc' = "done"
    /\ UNCHANGED <<st_stage, st_event, st_env>>
    /\ UNCHANGED <<chunkerVars, dedupVars, pipeVars, jobVars, pricingVars, webhookVars>>

NextRouter == RouterInvoke

SpecRouter == InitRouter /\ [][NextRouter]_vars

\* the upstream outputs in pipeline order, and the stage that produces each
UpstreamOrder ==
    << <<"downloadResult", "video_download">>,
       <<"audioResult", "audio_extraction">>,
       <<"chunkResult", "audio_chunking">>,
       <<"transcripts", "transcription">>,
       <<"summaries", "summarization">>,
       <<"finalResult", "result_combination">> >>

\* the stage of the first absent upstream output; notification if none is
FirstAbsentStage(keys) ==
    LET absent == {i \in DOMAIN UpstreamOrder : UpstreamOrder[i][1] \notin keys}
    IN  IF absent = {} THEN "notification"
        ELSE UpstreamOrder[MinOf(absent)][2]

RouterDone ==
    /\ st_stage = "failure_handler" /\ st_pc = "done"
    /\ ExtractMeetingId(st_event) = "found"

\* C17: failure handler classification: for every failure event with a
\* resolvable job id the stage is that of the first absent upstream output in
\* pipeline order, notification when all are present, never 'unknown'; the
\* handler writes status failed with that stage and the (truncated) message
\* to the Job Record, when its update goes through, and emits one failure
\* metric tagged with the same stage, when the publication goes through, and
\* never more than one
C17_RouterClassification ==
    RouterDone =>
       LET stage == FirstAbsentStage(st_event.keys)
       IN  /\ stage # "unknown"
           /\ st_inv.status = "failed"
           /\ st_env.db_update =>
                 /\ st_inv.record.status = "failed"
                 /\ st_inv.record.error_stage = stage
                 /\ st_inv.record.error_message = Truncate(st_event.error)
           /\ ~st_env.db_update => st_inv.record = InitialRecord
           /\ st_inv.metric = IF st_env.metric THEN <<stage>> ELSE <<>>

C17_Witness ==
    /\ RouterDone
    /\ st_event.keys = {"downloadResult", "audioResult", "transcripts"}
    /\ st_env.db_update /\ st_env.metric
    /\ st_inv.record.status = "failed"
    /\ st_inv.record.error_stage = "audio_chunking"
    /\ st_inv.metric = <<"audio_chunking">>

-----------------------------------------------------------------------------
(* SpecMerge: one invocation of the combiner, over events whose results      *)
(* carry costs, token counts and times                                       *)
(* money in units of 0.0001 USD, time in units of 0.1 s: round(x, 4) and     *)
(* round(x, 1) leave such values as they are                                 *)

MergeChunkIds == {0, 1}

\* the numeric fields of a result
UsageKeys == {"cost", "prompt_tokens", "completion_tokens",
              "processing_time_seconds"}

\* a Transcript Result as the combiner reads it
MergeTranscript(status, cost, time) ==
    [status |-> status,
     has |-> IF status = "success"
             THEN {"status", "cost", "processing_time_seconds"}
             ELSE {"status", "error"},
     cost |-> cost, processing_time_seconds |-> time]

MergeTranscripts ==
    { MergeTranscript("success", 12, 31), MergeTranscript("success", 34, 70),
      MergeTranscript("failed", 0, 0) }

\* a Summary Result as the combiner reads it, with or without usage fields
MergeSummary(chunk_id, status, usage) ==
    [chunk_id |-> chunk_id, status |-> status,
     has |-> IF status = "success"
             THEN {"chunk_id", "status", "summary_s3_path"}
                     \cup (IF usage THEN UsageKeys ELSE {})
             ELSE {"chunk_id", "status", "error"},
     cost |-> IF usage THEN 5 + chunk_id ELSE 0,
     prompt_tokens |-> IF usage THEN 900 + chunk_id ELSE 0,
     completion_tokens |-> IF usage THEN 150 ELSE 0,
     processing_time_seconds |-> IF usage THEN 24 ELSE 0]

MergeSummaries(c) ==
    { MergeSummary(c, "success", TRUE), MergeSummary(c, "success", FALSE),
      MergeSummary(c, "failed", FALSE) }

\* the events: up to two Transcript Results, and one or two Summary Results
\* of different chunks in either order
MergeEvents ==
    LET ts == {<<>>} \cup {<<t>> : t \in MergeTranscripts}
                     \cup {<<t, u>> : t \in MergeTranscripts, u \in MergeTranscripts}
        ss == UNION {{<<x>> : x \in MergeSummaries(c)} : c \in MergeChunkIds}
                \cup {<<x, y>> : x \in MergeSummaries(0), y \in MergeSummaries(1)}
                \cup {<<y, x>> : x \in MergeSummaries(0), y \in MergeSummaries(1)}
    IN  [transcripts : ts, summaries : ss]

\* the summary objects in storage
MergeStore ==
    [k \in {SummaryKey(c) : c \in MergeChunkIds} |->
        [chunk_id |-> k[2], time_range |-> TimeRange(600 * k[2], 600 * k[2] + 600),
         summary |-> "narrative", action_items |-> <<>>]]

MergeEnvs ==
    [get_fails : SUBSET MergeChunkIds, s3put : BOOLEAN, db_update : {TRUE},
     db_failed_write : {TRUE}]

InitMerge ==
    /\ st_pc = "ready"
    /\ st_stage = "combiner"
    /\ st_event \in MergeEvents
    /\ st_env \in MergeEnvs
    /\ st_inv = <<>>
    /\ ChunkerIdle /\ DedupIdle /\ PipelineIdle /\ JobIdle /\ PricingIdle /\ WebhookIdle

MergeInvoke ==
    /\ st_pc = "ready"
    /\ st_stage = "combiner"
    /\ st_inv' = CombinerHandler(st_event, st_env, MergeStore, InitialRecord)
    /\ st_pc' = "done"
    /\ UNCHANGED <<st_stage, st_event, st_env>>
    /\ UNCHANGED <<chunkerVars, dedupVars, pipeVars, jobVars, pricingVars, webhookVars>>

NextMerge == MergeInvoke

SpecMerge == InitMerge /\ [][NextMerge]_vars

\* the sum of one field over the results of a list that satisfy `picked`
TotalOf(key, xs, picked) ==
    LET RECURSIVE Upto(_)
        Upto(n) == IF n = 0 THEN 0
                   ELSE Upto(n - 1)
                          + (IF n \in picked /\ key \in xs[n].has THEN xs[n][key]
                             ELSE 0)
    IN  Upto(Len(xs))

\* the Transcript Results with status success
SuccessTranscripts ==
    {n \in DOMAIN st_event.transcripts : st_event.transcripts[n].status = "success"}

\* the successful Summary Results whose summary was loaded and merged
MergedSummaries ==
    {n \in DOMAIN st_event.summaries :
        /\ st_event.summaries[n].status = "success"
        /\ st_event.summaries[n].chunk_id \notin st_env.get_fails}

MergeReturned ==
    st_stage = "combiner" /\ st_pc = "done" /\ st_inv.kind = "returned"

\* C18: merge cost aggregation: with money in units of 0.0001,
\* transcription_cost is the sum of cost over the Transcript Results with
\* status success, summarization_cost the sum of cost over the merged
\* successful Summary Results, total_cost their sum; likewise total_tokens is
\* prompt_tokens + completion_tokens and the total processing time is
\* transcription time + summarization time
C18_CostAggregation ==
    MergeReturned =>
       LET v == st_inv.value
           ts == st_event.transcripts
           ss == st_event.summaries
       IN  /\ v.cost_breakdown.transcription_cost
                 = TotalOf("cost", ts, SuccessTranscripts)
           /\ v.cost_breakdown.summarization_cost
                 = TotalOf("cost", ss, MergedSummaries)
           /\ v.cost_breakdown.total_cost
                 = v.cost_breakdown.transcription_cost
                      + v.cost_breakdown.summarization_cost
           /\ v.usage_metrics.prompt_tokens
                 = TotalOf("prompt_tokens", ss, MergedSummaries)
           /\ v.usage_metrics.completion_tokens
                 = TotalOf("completion_tokens", ss, MergedSummaries)
           /\ v.usage_metrics.total_tokens
                 = v.usage_metrics.prompt_tokens + v.usage_metrics.completion_tokens
           /\ v.performance_metrics.transcription_time_seconds
                 = TotalOf("processing_time_seconds", ts, SuccessTranscripts)
           /\ v.performance_metrics.summarization_time_seconds
                 = TotalOf("processing_time_seconds", ss, MergedSummaries)
           /\ v.performance_metrics.total_processing_time_seconds
                 = v.performance_metrics.transcription_time_seconds
                      + v.performance_metrics.summarization_time_seconds
           /\ st_inv.record.total_cost = v.cost_breakdown.total_cost

\* costs [12, 34] and [5] give 51
C18_Witness ==
    /\ MergeReturned
    /\ Len(st_event.transcripts) = 2
    /\ st_event.transcripts[1].cost = 12 /\ st_event.transcripts[2].cost = 34
    /\ MergedSummaries # {}
    /\ \A n \in MergedSummaries : st_event.summaries[n].cost = 5
    /\ st_inv.value.cost_breakdown.transcription_cost = 46
    /\ st_inv.value.cost_breakdown.summarization_cost = 5
    /\ st_inv.value.cost_breakdown.total_cost = 51

-----------------------------------------------------------------------------
(* the Summary Result, checked in SpecStage *)

SummarizerSucceeded ==
    /\ st_stage = "summarizer" /\ st_pc = "done"
    /\ st_inv.kind = "returned" /\ st_inv.value.status = "success"

\* C19: the Summary Result carries usage: every Summary Result with status
\* success that the summarizer returns carries the token usage, the cost and
\* the processing time of its provider call, the fields the combiner adds up
C19_SummaryCarriesUsage ==
    SummarizerSucceeded => UsageKeys \subseteq st_inv.value.has

SummarizerOnFailedTranscript ==
    st_stage = "summarizer" /\ st_pc = "done" /\ st_event.status = "failed"

\* C20: summarization skip: when the input Transcript Result has status
\* failed the summarizer returns status skipped, makes no provider call, does
\* not read the transcript (the result is the same when the read would fail)
\* and writes no summary object
C20_SkipOnFailedTranscript ==
    SummarizerOnFailedTranscript =>
       /\ st_inv.kind = "returned"
       /\ st_inv.value.status = "skipped"
       /\ st_inv.calls = 0
       /\ st_inv.sleeps = <<>>
       /\ st_inv.put = NoPut

C20_Witness ==
    /\ SummarizerOnFailedTranscript
    /\ ~st_env.s3get
    /\ st_inv.value.status = "skipped"
    /\ st_inv.calls = 0
    /\ st_inv.put = NoPut

-----------------------------------------------------------------------------
(* the parser of the provider response, checked in SpecStage *)

\* the summarizer got an answer from the provider and stored its summary
SummarizerAnswered ==
    /\ st_stage = "summarizer" /\ ExecutorReached
    /\ generate_summary(st_env.secret, st_env.answers).kind = "returned"
    /\ st_env.s3put

\* C21: tolerant parsing of a missing marker: when the provider response does
\* not contain the action-item section marker, the whole response text is the
\* summary, there are zero action items, and the summarizer still returns
\* status success
C21_MissingMarkerTolerated ==
    (SummarizerAnswered /\ st_env.response.markers = 0) =>
        /\ st_inv.kind = "returned"
        /\ st_inv.value.status = "success"
        /\ st_inv.value.action_items_count = 0
        /\ st_inv.put # NoPut
        /\ st_inv.put[1].body.summary = st_env.response.raw
        /\ st_inv.put[1].body.action_items = <<>>

C21_Witness ==
    /\ SummarizerAnswered
    /\ st_env.response.markers = 0
    /\ st_inv.value.status = "success"
    /\ st_inv.put[1].body.summary = "raw2"
    /\ st_inv.put[1].body.action_items = <<>>

-----------------------------------------------------------------------------
(* SpecJobFair: SpecJob with both the entry handler and the workflow running  *)
(* on: a started invocation of the entry handler runs to its return, and the  *)
(* workflow runs the next stage, or the failure handler, until it ends        *)

JobEntryStep == EntryStartExecution \/ EntryUpdate

JobWorkflowStep ==
    \/ IngesterBegin \/ IngesterCopy \/ DownloaderBegin \/ DownloaderFinish
    \/ ExtractorBegin \/ ExtractorFinish \/ JobChunk \/ JobFanOut \/ JobCombine
    \/ JobNotify \/ JobHandleFailure

SpecJobFair ==
    /\ InitJob /\ [][NextJob]_vars
    /\ WF_vars(JobEntryStep)
    /\ WF_vars(JobWorkflowStep)

\* the workflow execution of the job was started
JobStarted == wf_state # "idle" /\ wf_state # "NotStarted"

\* C22: every job terminates in the record: when the entry handler and the
\* workflow run on, and the failure handler is invoked for every exception of
\* a stage, the Job Record of a job whose execution was started ends up with
\* status completed or failed and stays so (it does not stay forever in
\* initiated, downloading, processing, extracting_audio or audio_extracted)
C22_EndsTerminal ==
    <>[](JobStarted => table.status \in TerminalStatuses)

-----------------------------------------------------------------------------
(* the retry classification of the two executors, checked in SpecStage *)

\* rate limiting (429), a 5xx server error or a timeout
RetryableMarks == {"429", "rate_limit", "500", "502", "503", "504", "timeout"}
Retryable(msg) == (msg.marks \cap RetryableMarks) # {}

\* the provider call of iteration `attempt` was made and failed
FailedAttempt(attempt) ==
    /\ ExecutorReached
    /\ \A k \in 1 .. (attempt + 1) : ~st_env.answers[k].ok

\* the failed call of iteration `attempt` was followed by its backoff sleep
\* and by another call
SleptAndRetried(attempt) ==
    /\ \E k \in DOMAIN st_inv.sleeps :
          st_inv.sleeps[k] = retry_delay * (2 ^ attempt)
    /\ st_inv.calls >= attempt + 2

\* C23: uniform retry classification: in the transcriber's and in the
\* summarizer's executor alike, an error of a call that is not the last one
\* is followed by a backoff sleep and another attempt if and only if it is a
\* rate-limit error, a 5xx server error or a timeout
C23_UniformRetryClassification ==
    \A attempt \in 0 .. (max_retries - 2) :
        FailedAttempt(attempt) =>
            (SleptAndRetried(attempt)
                <=> Retryable(st_env.answers[attempt + 1].msg))

-----------------------------------------------------------------------------
(* the writes of the stages on their entry, checked in SpecJob *)

\* the stages that have begun their work, by the component that runs them
EnteredStages ==
    (IF JobStarted /\ ~(wf_state = "Ingest" /\ job_pc = "enter")
     THEN {IF eh_kind = "submit" THEN "ingester" ELSE "downloader"} ELSE {})
    \cup (IF "downloadResult" \in wf_keys
             /\ ~(wf_state = "ExtractAudio" /\ job_pc = "enter")
          THEN {"extractor"} ELSE {})
    \cup (IF "audioResult" \in wf_keys /\ wf_state # "ChunkAudio"
          THEN {"chunker"} ELSE {})
    \cup (IF "chunkResult" \in wf_keys /\ wf_state # "FanOut"
          THEN {"transcriber", "summarizer"} ELSE {})
    \cup (IF "summaries" \in wf_keys /\ wf_state # "Combine"
          THEN {"combiner"} ELSE {})
    \cup (IF "finalResult" \in wf_keys /\ wf_state # "SendNotification"
          THEN {"notification_sender"} ELSE {})

\* the writes of one component, in order
WritesBy(by) == SelectSeq(write_log, LAMBDA w : w.by = by)

-----------------------------------------------------------------------------
(* the plan of the chunker, checked in SpecChunker *)

\* the reference plan for D = duration_seconds, L = CHUNK_DURATION and
\* O = OVERLAP_DURATION
RefStart(i) == IF i > 0 THEN i * CHUNK_DURATION - OVERLAP_DURATION ELSE 0
RefDuration(i) ==
    IF duration_seconds - RefStart(i) < CHUNK_DURATION
    THEN duration_seconds - RefStart(i) ELSE CHUNK_DURATION
RefCandidates ==
    IF duration_seconds % CHUNK_DURATION = 0
    THEN duration_seconds \div CHUNK_DURATION
    ELSE (duration_seconds \div CHUNK_DURATION) + 1

\* the emitted candidates among the first n, in ascending order
RECURSIVE RefPlan(_)
RefPlan(n) ==
    IF n = 0 THEN <<>>
    ELSE IF RefDuration(n - 1) >= 10
    THEN Append(RefPlan(n - 1),
                [chunk_id |-> n - 1, start_time |-> RefStart(n - 1),
                 end_time |-> RefStart(n - 1) + RefDuration(n - 1),
                 duration |-> RefDuration(n - 1)])
    ELSE RefPlan(n - 1)

C26_TooShortIsEmpty ==
    (ck_pc # "idle" /\ duration_seconds < 10) =>
        /\ chunks_metadata = <<>>
        /\ chunk_uploads = {}
        /\ ~ENABLED ChunkerSplitFail
        /\ ~ENABLED ChunkerCreate
        /\ ck_pc = "raised" => (num_chunks = 0 /\ ck_i = 0)

C26_Witness ==
    /\ ck_pc = "returned"
    /\ duration_seconds = 5 /\ CHUNK_DURATION = 600 /\ OVERLAP_DURATION = 30
    /\ num_chunks = 1
    /\ ck_i = 1
    /\ chunks_metadata = <<>>
    /\ chunk_uploads = {}

\* C27: dense chunk indices: for every D, L, O with O < L the chunk_id
\* values of the emitted descriptors are exactly 0, 1, ..., k-1 without holes
\* (only trailing candidates are skipped), and total_chunks = k
C27_DenseChunkIds ==
    (ck_pc = "returned" /\ OVERLAP_DURATION < CHUNK_DURATION) =>
        /\ \A k \in DOMAIN chunks_metadata : chunks_metadata[k].chunk_id = k - 1
        /\ chunk_uploads = 0 .. (Len(chunks_metadata) - 1)
        /\ \A i \in 0 .. (num_chunks - 1) :
              i >= Len(chunks_metadata) => ChunkDuration(i) < MIN_CHUNK_SECONDS

C27_Witness ==
    /\ ck_pc = "returned"
    /\ duration_seconds = 31 /\ CHUNK_DURATION = 15 /\ OVERLAP_DURATION = 5
    /\ num_chunks = 3
    /\ Len(chunks_metadata) = 2
    /\ chunks_metadata[2].chunk_id = 1

-----------------------------------------------------------------------------
(* the bound on the attempts of the two executors, checked in SpecStage *)

\* the first call the provider answers successfully; 0 if there is none
FirstOk ==
    IF \E k \in 1 .. max_retries : st_env.answers[k].ok
    THEN MinOf({k \in 1 .. max_retries : st_env.answers[k].ok})
    ELSE 0

RECURSIVE SleepTotal(_)
SleepTotal(sleeps) ==
    IF sleeps = <<>> THEN 0 ELSE Head(sleeps) + SleepTotal(Tail(sleeps))

-----------------------------------------------------------------------------
(* The pricing cache: common/openai_pricing.get_pricing.  One process holds
   the module globals; time is counted in minutes and rates in units of
   0.00001 USD. *)

\* timedelta(hours=1), in minutes
_cache_duration == 60

\* the latest instant of the clock
MaxTime == 140

\* how far the clock moves between two events, in minutes
TickMinutes == {20, 40}

\* the strings float() converts, with their values; any other string makes
\* float() raise ValueError
FloatLiterals ==
    [lit \in {"0.0001", "0.00015", "0.0006", "0.0002", "0.0003"} |->
        CASE lit = "0.0001" -> 10
          [] lit = "0.00015" -> 15
          [] lit = "0.0006" -> 60
          [] lit = "0.0002" -> 20
          [] lit = "0.0003" -> 30]

\* float(text)
float(text) ==
    IF text \in DOMAIN FloatLiterals
    THEN [ok |-> TRUE, value |-> FloatLiterals[text]]
    ELSE [ok |-> FALSE, value |-> 0]

\* the values a deployment gives the pricing keys
EnvValues(key) ==
    CASE key = "WHISPER_PRICE_PER_SECOND" -> {Unset, "0.0002", "0,0002"}
      [] key = "GPT4O_MINI_INPUT_PRICE" -> {Unset, "0.0003"}
      [] key = "GPT4O_MINI_OUTPUT_PRICE" -> {Unset, ""}

\* the configurations of a process
Environs ==
    {e \in [EnvKeys -> UNION {EnvValues(k) : k \in EnvKeys}] :
        \A k \in EnvKeys : e[k] \in EnvValues(k)}

\* os.environ.get(key, default)
environ_get(key, default) ==
    IF environ[key] = Unset THEN default ELSE environ[key]

\* the dict literal of get_pricing; a float() that raises ends the call
ReadPricing ==
    LET w == float(environ_get("WHISPER_PRICE_PER_SECOND", "0.0001"))
        i == float(environ_get("GPT4O_MINI_INPUT_PRICE", "0.00015"))
        o == float(environ_get("GPT4O_MINI_OUTPUT_PRICE", "0.0006"))
    IN  IF w.ok /\ i.ok /\ o.ok
        THEN [kind |-> "returned",
              value |-> [whisper_1 |-> [price_per_second |-> w.value],
                         gpt_4o_mini |-> [input_price_per_1k |-> i.value,
                                          output_price_per_1k |-> o.value]]]
        ELSE [kind |-> "raised", value |-> [error |-> "ValueError"]]

\* the cache test of get_pricing
CacheFresh ==
    /\ _pricing_cache # None /\ _cache_timestamp # None
    /\ utcnow - _cache_timestamp.minutes < _cache_duration

GetPricingCall(kind, value, read) ==
    [kind |-> kind, value |-> value, read |-> read, now |-> utcnow,
     environ |-> environ,
     cache_before |-> _pricing_cache, timestamp_before |-> _cache_timestamp]

InitPricing ==
    /\ environ \in Environs
    /\ utcnow = 0
    /\ _pricing_cache = None
    /\ _cache_timestamp = None
    /\ gp_call = NoCall
    /\ ChunkerIdle /\ StageIdle /\ DedupIdle /\ PipelineIdle /\ JobIdle
    /\ WebhookIdle

pricingRest == <<chunkerVars, stageVars, dedupVars, pipeVars, jobVars,
                 webhookVars>>

\* get_pricing()
get_pricing ==
    /\ IF CacheFresh
       THEN /\ gp_call' = GetPricingCall("returned", _pricing_cache, FALSE)
            /\ UNCHANGED <<_pricing_cache, _cache_timestamp>>
       ELSE LET pricing == ReadPricing
            IN  /\ gp_call' = GetPricingCall(pricing.kind, pricing.value, TRUE)
                /\ IF pricing.kind = "returned"
                   THEN /\ _pricing_cache' = pricing.value
                        /\ _cache_timestamp' = [minutes |-> utcnow]
                   ELSE UNCHANGED <<_pricing_cache, _cache_timestamp>>
    /\ UNCHANGED <<environ, utcnow, pricingRest>>

\* time passes
PricingTick ==
    /\ \E d \in TickMinutes :
          /\ utcnow + d <= MaxTime
          /\ utcnow' = utcnow + d
    /\ UNCHANGED <<environ, _pricing_cache, _cache_timestamp, gp_call,
                   pricingRest>>

\* the process changes one of its pricing variables
PricingSetEnviron ==
    /\ \E k \in EnvKeys : \E v \in EnvValues(k) \ {environ[k]} :
          environ' = [environ EXCEPT ![k] = v]
    /\ UNCHANGED <<utcnow, _pricing_cache, _cache_timestamp, gp_call,
                   pricingRest>>

\* a new process imports the module under the deployment's configuration
PricingColdStart ==
    /\ environ' \in Environs
    /\ _pricing_cache' = None
    /\ _cache_timestamp' = None
    /\ gp_call' = NoCall
    /\ UNCHANGED <<utcnow, pricingRest>>

NextPricing ==
    \/ get_pricing
    \/ PricingTick
    \/ PricingSetEnviron
    \/ PricingColdStart

SpecPricing == InitPricing /\ [][NextPricing]_vars

\* the rate a key stands for: the configured one, the static default if unset
ConfiguredRate(env, key, default) ==
    IF env[key] = Unset THEN default ELSE FloatLiterals[env[key]]

ConfiguredPricing(env) ==
    [whisper_1 |->
        [price_per_second |->
            ConfiguredRate(env, "WHISPER_PRICE_PER_SECOND", 10)],
     gpt_4o_mini |->
        [input_price_per_1k |->
            ConfiguredRate(env, "GPT4O_MINI_INPUT_PRICE", 15),
         output_price_per_1k |->
            ConfiguredRate(env, "GPT4O_MINI_OUTPUT_PRICE", 60)]]

\* the call found an entry less than one hour old
WithinWindow ==
    /\ gp_call.cache_before # None
    /\ gp_call.now - gp_call.timestamp_before.minutes < 60

\* the call answered from the cache and left it alone
ServedFromCache ==
    /\ gp_call.kind = "returned"
    /\ ~gp_call.read
    /\ gp_call.value = gp_call.cache_before
    /\ _pricing_cache = gp_call.cache_before
    /\ _cache_timestamp = gp_call.timestamp_before

\* the call read the configuration, returned and cached it, restarted the window
Refetched ==
    /\ gp_call.read
    /\ gp_call.kind = "returned"
    /\ \A k \in EnvKeys :
          gp_call.environ[k] \in DOMAIN FloatLiterals \cup {Unset}
    /\ gp_call.value = ConfiguredPricing(gp_call.environ)
    /\ _pricing_cache = gp_call.value
    /\ _cache_timestamp = [minutes |-> gp_call.now]

\* C29: pricing cache window: get_pricing returns the cached pricing without
\* reading the configuration whenever less than 1 hour has passed since the
\* last fetch; when nothing is cached or 1 hour or more has passed it reads
\* the configuration (static defaults for unset values), returns it and
\* restarts the window; a configuration change is never visible before the
\* cached entry is 1 hour old
C29_PricingCacheWindow ==
    gp_call.kind # "none" =>
        IF WithinWindow THEN ServedFromCache ELSE Refetched

\* the same for the calls made under a configuration float() converts
ConvertibleConfiguration ==
    \A k \in EnvKeys : gp_call.environ[k] \in DOMAIN FloatLiterals \cup {Unset}

PricingCacheWindowIfConvertible ==
    (gp_call.kind # "none" /\ ConvertibleConfiguration) =>
        IF WithinWindow THEN ServedFromCache ELSE Refetched

\* a call under a changed configuration, 40 minutes into the window, that
\* still returns the rates cached before the change
StaleWithinWindow ==
    /\ gp_call.kind = "returned"
    /\ gp_call.cache_before # None
    /\ gp_call.now - gp_call.timestamp_before.minutes = 40
    /\ gp_call.environ["WHISPER_PRICE_PER_SECOND"] = "0.0002"
    /\ gp_call.value.whisper_1.price_per_second = 10

\* a call exactly one hour after the fetch, which reads the configuration
RefetchedAtOneHour ==
    /\ gp_call.kind = "returned"
    /\ gp_call.cache_before # None
    /\ gp_call.now - gp_call.timestamp_before.minutes = 60
    /\ gp_call.read

-----------------------------------------------------------------------------
(* the per-chunk units of the fan-out, checked in SpecPipeline *)

\* the objects chunk_id's transcriber and summarizer own in the store
OwnObjects(chunk_id) == {<<"transcripts", chunk_id>>, <<"summaries", chunk_id>>}

\* the step is an invocation of the transcriber or the summarizer for chunk k
UnitStep(k) == Transcribe(k) \/ Summarize(k)

\* C30: per-chunk units share nothing: the transcriber and summarizer
\* invocations for chunk i write only the stored objects keyed by chunk index
\* i, work on the event of chunk i only, and never write the Job Record; so
\* under any interleaving an invocation for one chunk leaves the objects and
\* results of every other chunk as they were
C30_PerChunkUnitsShareNothing ==
    [][\A k \in ChunkIndexes :
          UnitStep(k) =>
              LET c == chunks[k].chunk_id
              IN  /\ table' = table
                  /\ DOMAIN s3 \subseteq DOMAIN s3'
                  /\ DOMAIN s3' \ DOMAIN s3 \subseteq OwnObjects(c)
                  /\ \A key \in DOMAIN s3 \ OwnObjects(c) : s3'[key] = s3[key]
                  /\ \A key \in DOMAIN s3' \cap OwnObjects(c) :
                        s3'[key].chunk_id = c
                  /\ \A j \in ChunkIndexes \ {k} :
                        /\ transcripts'[j] = transcripts[j]
                        /\ summaries'[j] = summaries[j]
                  /\ transcripts'[k] # NoValue => transcripts'[k].chunk_id = c
                  /\ summaries'[k] # NoValue => summaries'[k].chunk_id = c]_vars

\* two chunks went through both units in interleaved order and each finds its
\* own transcript and summary in the store, the Job Record untouched
C30_Witness ==
    /\ wf_state = "FanOut"
    /\ Len(chunks) = MaxChunks
    /\ \A c \in {0, 1} :
          /\ OwnObjects(c) \subseteq DOMAIN s3
          /\ \A key \in OwnObjects(c) : s3[key].chunk_id = c
    /\ summaries[1].status = "success"
    /\ summaries[2].status = "success"
    /\ transcripts[3] = NoValue
    /\ table = InitialRecord

-----------------------------------------------------------------------------
(* deduplicate_action_items against its input, checked in SpecDedup after
   every iteration of the loop *)

\* the input items among the first n that have no similar kept item before them
RECURSIVE KeptUpTo(_)
KeptUpTo(n) ==
    IF n = 0 THEN {}
    ELSE LET kept == KeptUpTo(n - 1)
         IN  IF \E j \in kept :
                    IsSimilar(dd_input[n].action, dd_input[j].action)
             THEN kept
             ELSE kept \cup {n}

Kept == KeptUpTo(dd_idx)
Folded == (1 .. dd_idx) \ Kept

\* the k-th kept input item, in input order
FirstOccurrence(k) ==
    CHOOSE i \in Kept : Cardinality({j \in Kept : j <= i}) = k

\* order-preserving subsequence, action text and chunk_id of the first
\* occurrence, every other item folded into one earlier kept item, never longer
\* than the input, never empty for a non-empty input
KeepsFirstOccurrences ==
    /\ Len(deduplicated) = Cardinality(Kept)
    /\ \A k \in 1 .. Len(deduplicated) :
          /\ deduplicated[k].action = dd_input[FirstOccurrence(k)].action
          /\ deduplicated[k].chunk_id = dd_input[FirstOccurrence(k)].chunk_id
    /\ \A i \in Folded :
          \E j \in Kept :
              /\ j < i
              /\ IsSimilar(dd_input[i].action, dd_input[j].action)
    /\ (dd_idx > 0 /\ dd_idx \in Folded) =>
          /\ Len(deduplicated) = Len(dd_prev)
          /\ Cardinality({k \in 1 .. Len(dd_prev) :
                             deduplicated[k] # dd_prev[k]}) <= 1
    /\ Len(deduplicated) <= dd_idx
    /\ dd_idx > 0 => Len(deduplicated) >= 1

-----------------------------------------------------------------------------
(* the lines of the action-item section, checked in SpecStage *)

\* the summarizer stored the summary of a response with an action-item section
SectionParsed ==
    /\ SummarizerAnswered
    /\ st_env.response.markers = 1
    /\ ~st_env.response.none

\* the lines that start with a bullet marker and carry an action text
ItemLines ==
    SelectSeq(st_env.response.lines,
              LAMBDA line : line.bullet /\ line.action # <<>>)

\* C32: action-item line parsing: for every line that starts with a bullet
\* marker a missing Owner field yields owner "Unassigned", a missing Due field
\* yields due_date "Not specified", a line whose Action text is empty or
\* absent is dropped without failing the parse, and a line that does not start
\* with a bullet marker produces no item
C32_ActionItemLines ==
    SectionParsed =>
        LET items == st_inv.put[1].body.action_items
        IN  /\ st_inv.kind = "returned"
            /\ st_inv.value.status = "success"
            /\ st_inv.value.action_items_count = Len(ItemLines)
            /\ Len(items) = Len(ItemLines)
            /\ \A k \in 1 .. Len(ItemLines) :
                  /\ items[k].action = ItemLines[k].action
                  /\ items[k].owner =
                        IF ItemLines[k].owner = Absent THEN "Unassigned"
                        ELSE ItemLines[k].owner
                  /\ items[k].due_date =
                        IF ItemLines[k].due = Absent THEN "Not specified"
                        ELSE ItemLines[k].due

\* four lines: one without Due, one without a bullet, one without an action
\* text, one without Owner; two items come out
C32_Witness ==
    /\ SectionParsed
    /\ Len(st_env.response.lines) = 4
    /\ ~st_env.response.lines[2].bullet
    /\ st_env.response.lines[3].action = <<>>
    /\ st_inv.put[1].body.action_items =
          << [action |-> <<"b", "c", "d", "e">>, owner |-> "Sarah",
              due_date |-> "Not specified"],
             [action |-> <<"A", "b", "c", "d", "e">>, owner |-> "Unassigned",
              due_date |-> "Friday"] >>

\* the ratio of the later text against the earlier one is at most 0.8
AtMostThreshold(later, earlier) ==
    LET r == SimilarityTable[later, earlier]
    IN  r.num * 5 <= 4 * r.den

\* C33: deduplicated items are pairwise dissimilar: for every two items of the
\* output the similarity of the later item's action text against the earlier
\* item's action text is at most 0.8, after any prefix of the input
C33_PairwiseDissimilar ==
    \A j, k \in 1 .. Len(deduplicated) :
        j < k => AtMostThreshold(deduplicated[k].action, deduplicated[j].action)

\* two texts at exactly 0.8 are both kept, a third item was folded into the
\* first
C33_Witness ==
    /\ dd_pc = "returned"
    /\ Len(dd_input) = 3
    /\ Len(deduplicated) = 2
    /\ deduplicated[1].action = <<"b", "c", "d", "e">>
    /\ deduplicated[2].action = <<"a", "b", "c", "d", "e", "f">>
    /\ dd_input[3].action = <<"A", "b", "c", "d", "e">>
    /\ SimilarityTable[deduplicated[2].action, deduplicated[1].action]
          = [num |-> 8, den |-> 10]

\* C34: dedup is idempotent: applying deduplicate_action_items to its own
\* output returns the same list: same items, same order, same owner and
\* due_date values
C34_Idempotent ==
    dd_pc = "returned" =>
        /\ deduplicated = deduplicate_action_items(dd_input)
        /\ deduplicate_action_items(deduplicate_action_items(dd_input))
              = deduplicate_action_items(dd_input)

\* a list of three items that the first application shortens and fills
C34_Witness ==
    /\ dd_pc = "returned"
    /\ Len(dd_input) = 3
    /\ Len(deduplicated) = 2
    /\ dd_input[1].owner = Unassigned
    /\ deduplicated[1].owner = "Bob"
    /\ deduplicated[1].due_date = "Friday"
    /\ deduplicate_action_items(deduplicated) = deduplicated

-----------------------------------------------------------------------------
(* the Final Result and the completed Job Record, checked in SpecPipeline *)

\* C35: a completed job merged at least one chunk: whenever the merge writes
\* status=completed, the Final Result has total_chunks_processed >= 1 and its
\* narrative holds the summary of at least one chunk, also when loading
\* summary objects from storage fails
C35_CompletedMergedAChunk ==
    table.status = "completed" =>
        /\ FinalResultKey \in DOMAIN s3
        /\ s3[FinalResultKey].total_chunks_processed >= 1
        /\ Len(s3[FinalResultKey].final_summary) >= 1

\* C36: persist before complete: in every reachable state in which the Job
\* Record has status=completed the Final Result of the job is in durable
\* storage, and the record's final_summary and action_items equal those of
\* the stored Final Result
C36_PersistBeforeComplete ==
    table.status = "completed" =>
        /\ <<"final_result", 0>> \in DOMAIN s3
        /\ table.final_summary = s3[<<"final_result", 0>>].final_summary
        /\ table.action_items = s3[<<"final_result", 0>>].action_items
        /\ table.final_result_s3_path = <<"final_result", 0>>

\* a completed job of two merged chunks with action items, notification sent
C36_Witness ==
    /\ table.status = "completed"
    /\ wf_state = "Succeeded"
    /\ Len(table.final_summary) = 2
    /\ table.action_items # <<>>
    /\ s3[<<"final_result", 0>>].total_chunks_processed = 2

-----------------------------------------------------------------------------
(* the entry handlers when the workflow cannot be started, checked in SpecJob *)

\* the entry handler returned and no execution was started
StartFailed == eh_pc = "done" /\ wf_state = "NotStarted"

\* C37: start failure is recorded: in both entry handlers (webhook and S3
\* submit), if starting the workflow execution fails after the Job Record was
\* created, the handler sets the record's status to failed with an
\* error_message; no record is left in status initiated without a running
\* execution
C37_StartFailureRecorded ==
    StartFailed =>
        /\ table.status = "failed"
        /\ table.error_message # NoMsg

-----------------------------------------------------------------------------
(* SpecWebhook: webhook_handler.lambda_handler, one invocation per step.  The
   Job Records are kept in creation order; the meeting_id of a record (a fresh
   uuid4) is its place in that order. *)

\* most Job Records explored
MaxJobs == 2

\* Drive file ids and the id of the watched folder (longer than 10 characters)
DriveFiles == {"file-0000001", "file-0000002"}
FolderId == "folder-00001"

\* the secret store: the stored webhook secret and whether it can be retrieved
SecretStores ==
    {[available |-> TRUE, value |-> "s3cr3t"],
     [available |-> TRUE, value |-> ""],
     [available |-> FALSE, value |-> "s3cr3t"]}

WebhookRequest(state, token, changed, uri, body) ==
    [state |-> state, token |-> token, changed |-> changed, uri |-> uri,
     body |-> body]

\* notifications: resource state, channel token, x-goog-changed, resource uri
\* and the id in the body: folder-level ones, the sync handshake, direct
\* ones for a file, one with an unknown state, one for a trashed file and one
\* whose uri is the folder and whose body names the file
WebhookRequests ==
    {WebhookRequest("update", t, "children", Absent, Absent) :
        t \in {Absent, "s3cr3t", "wrong"}}
    \cup
    {WebhookRequest("add", t, "", "file-0000001", Absent) :
        t \in {Absent, "s3cr3t", "wrong"}}
    \cup
    {WebhookRequest("update", "s3cr3t", "", Absent, Absent),
     WebhookRequest("sync", Absent, "", Absent, Absent),
     WebhookRequest("bogus", "s3cr3t", "children", Absent, Absent),
     WebhookRequest("trash", "s3cr3t", "", "file-0000001", Absent),
     WebhookRequest("change", "s3cr3t", "", FolderId, "file-0000002")}

\* what get_recent_files_from_folder returns (empty also when Drive fails)
RecentFiles ==
    { <<>>, <<"file-0000001">>, <<"file-0000002", "file-0000001">> }

\* how start_execution and the writes after it end
StartOutcomes ==
    {"processing", "update_failed", "update_and_failed_write_failed",
     "start_failed", "start_and_failed_write_failed"}

\* the environment of one invocation: the table.query works or not and which
\* initiated item the index yields first, put_item works or not, and how the
\* start ends
WebhookEnvs ==
    {e \in [query_ok : BOOLEAN, index_first : {"oldest", "newest"},
            put_ok : BOOLEAN, outcome : StartOutcomes] :
        /\ ~e.query_ok => e.index_first = "oldest"
        /\ ~e.put_ok => e.outcome = "processing"}

valid_states ==
    {"sync", "add", "remove", "update", "trash", "untrash", "change"}

\* variant: without a retrievable secret the request is refused
validate_webhook_FailClosed(headers, store) ==
    IF ~store.available \/ store.value = "" THEN FALSE
    ELSE IF headers.token # store.value THEN FALSE
    ELSE headers.state \in valid_states

\* validate_webhook: expected_secret is None when the secret cannot be
\* retrieved, and `not expected_secret` also holds for the empty string
validate_webhook(headers, store) ==
    IF ~store.available \/ store.value = "" THEN TRUE
    ELSE IF headers.token # store.value THEN FALSE
    ELSE headers.state \in valid_states

\* the test for a folder-level notification
FolderLevel(headers) ==
    \/ headers.changed = "children"
    \/ headers.state \in {"update", "change"} /\ headers.uri = Absent

\* the file id of a direct notification, Absent when none is found
DirectFileId(request) ==
    IF request.uri # Absent /\ Len(request.uri) > 10 /\ request.uri # FolderId
    THEN request.uri
    ELSE request.body

\* table.query on StatusIndex for status 'initiated' with Limit=1 and the
\* filter file_id = :fid: one initiated item is evaluated, then filtered
AlreadyInitiated(tbl, file_id, env) ==
    LET initiated == {k \in DOMAIN tbl : tbl[k].status = "initiated"}
        first == IF env.index_first = "oldest" THEN MinOf(initiated)
                 ELSE Max(initiated)
    IN  /\ env.query_ok
        /\ initiated # {}
        /\ tbl[first].file_id = file_id

WebhookRun(tbl, created, started, raised) ==
    [table |-> tbl, created |-> created, started |-> started,
     raised |-> raised]

\* put_item worked: start_execution, then the update to 'processing', or the
\* except clause's update to 'failed'; when that update raises, the exception
\* leaves the handler's loop
StartJob(run, file_id, via, env) ==
    LET o == env.outcome
        execution == o \in {"processing", "update_failed",
                            "update_and_failed_write_failed"}
        status == CASE o = "processing" -> "processing"
                    [] o \in {"update_failed", "start_failed"} -> "failed"
                    [] OTHER -> "initiated"
    IN  WebhookRun(Append(run.table,
                          [file_id |-> file_id, status |-> status,
                           execution |-> execution, via |-> via]),
                   run.created + 1,
                   run.started + (IF execution THEN 1 ELSE 0),
                   o \in {"update_and_failed_write_failed",
                          "start_and_failed_write_failed"})

\* the loop over recent_files
RECURSIVE ProcessRecentFiles(_, _, _)
ProcessRecentFiles(files, run, env) ==
    IF files = <<>> \/ run.raised THEN run
    ELSE LET file_id == Head(files)
             next == IF AlreadyInitiated(run.table, file_id, env) THEN run
                     ELSE IF ~env.put_ok THEN run
                     ELSE StartJob(run, file_id, "folder", env)
         IN  ProcessRecentFiles(Tail(files), next, env)

\* the part of the handler for a direct file notification
ProcessDirect(request, tbl, env) ==
    LET file_id == DirectFileId(request)
        run == WebhookRun(tbl, 0, 0, FALSE)
    IN  IF file_id = Absent THEN [run |-> run, code |-> 200]
        ELSE IF request.state \notin {"add", "update", "change"}
        THEN [run |-> run, code |-> 200]
        ELSE IF ~env.put_ok THEN [run |-> run, code |-> 500]
        ELSE LET done == StartJob(run, file_id, "direct", env)
             IN  [run |-> done,
                  code |-> IF env.outcome = "processing" THEN 200 ELSE 500]

WebhookInvocation(request, store, level, code, run) ==
    [kind |-> "returned", token |-> request.token, store |-> store,
     level |-> level, code |-> code, created |-> run.created,
     started |-> run.started]

InitWebhook ==
    /\ wh_table = <<>>
    /\ wh_inv = [kind |-> "none"]
    /\ ChunkerIdle /\ StageIdle /\ DedupIdle /\ PipelineIdle /\ JobIdle
    /\ PricingIdle

webhookRest == <<chunkerVars, stageVars, dedupVars, pipeVars, jobVars,
                 pricingVars>>

\* webhook_handler.lambda_handler
WebhookInvoke ==
    /\ \E request \in WebhookRequests, store \in SecretStores :
          LET idle == WebhookRun(wh_table, 0, 0, FALSE)
          IN  IF request.state = "sync"
              THEN /\ wh_inv' = WebhookInvocation(request, store, "none", 200,
                                                  idle)
                   /\ UNCHANGED wh_table
              ELSE IF ~validate_webhook(request, store)
              THEN /\ wh_inv' = WebhookInvocation(request, store, "none", 403,
                                                  idle)
                   /\ UNCHANGED wh_table
              ELSE IF FolderLevel(request)
              THEN \/ \* get_folder_id returns None
                      /\ wh_inv' = WebhookInvocation(request, store, "folder",
                                                     500, idle)
                      /\ UNCHANGED wh_table
                   \/ \E files \in RecentFiles, env \in WebhookEnvs :
                         LET run == ProcessRecentFiles(files, idle, env)
                         IN  /\ Len(run.table) <= MaxJobs
                             /\ wh_table' = run.table
                             /\ wh_inv' = WebhookInvocation(
                                              request, store, "folder",
                                              IF run.raised THEN 500 ELSE 200,
                                              run)
              ELSE \E env \in WebhookEnvs :
                      LET r == ProcessDirect(request, wh_table, env)
                      IN  /\ Len(r.run.table) <= MaxJobs
                          /\ wh_table' = r.run.table
                          /\ wh_inv' = WebhookInvocation(request, store,
                                                         "direct", r.code,
                                                         r.run)
    /\ UNCHANGED webhookRest

NextWebhook == WebhookInvoke

SpecWebhook == InitWebhook /\ [][NextWebhook]_vars

\* the Job Records, and the executions, made for a file by folder-level
\* notifications
FolderJobs(file_id) ==
    {k \in DOMAIN wh_table :
        wh_table[k].file_id = file_id /\ wh_table[k].via = "folder"}

FolderExecutions(file_id) ==
    {k \in FolderJobs(file_id) : wh_table[k].execution}

\* C38: no duplicate jobs per file: across any sequence of folder-level
\* webhook notifications whose recent-file query lists the same Drive file, at
\* most one Job Record and one workflow execution is created for that file_id
C38_NoDuplicateJobs ==
    \A file_id \in DriveFiles :
        /\ Cardinality(FolderJobs(file_id)) <= 1
        /\ Cardinality(FolderExecutions(file_id)) <= 1

\* the token of the last request is missing or is not the stored secret
TokenRefused ==
    /\ wh_inv.kind # "none"
    /\ wh_inv.token = Absent \/ wh_inv.token # wh_inv.store.value

\* C39: webhook token gate: a webhook request whose channel token is missing
\* or differs from the stored webhook secret never creates a Job Record and
\* never starts a workflow execution, in every state of the secret store
\* (also when the secret cannot be retrieved)
C39_TokenGate ==
    TokenRefused => wh_inv.created = 0 /\ wh_inv.started = 0

\* the gate where the secret can be retrieved and is not empty
TokenGateWithSecret ==
    (TokenRefused /\ wh_inv.store.available /\ wh_inv.store.value # "") =>
        /\ wh_inv.created = 0 /\ wh_inv.started = 0
        /\ wh_inv.code \in {200, 403}
        /\ wh_inv.level = "none"

-----------------------------------------------------------------------------
(* the failure handler without a job id, and with a failing record write *)

RouterReturned == st_stage = "failure_handler" /\ st_pc = "done"

\* no meeting_id at the top level or in downloadResult, audioResult or
\* chunkResult
NoJobId ==
    /\ "top" \notin st_event.ids
    /\ \A n \in DOMAIN NestedPlaces :
          ~(NestedPlaces[n] \in st_event.keys /\ NestedPlaces[n] \in st_event.ids)

\* C40: the failure handler is total and free of effects without a job id:
\* it never raises, for any event; when no job id is found at the top level or
\* in downloadResult, audioResult or chunkResult it returns status error,
\* leaves the Job Record unchanged and emits no metric; when the Job Record
\* write fails it still emits the failure metric (one, with the stage, when
\* the publication goes through) and returns status failed
C40_RouterTotalAndFrameSafe ==
    RouterReturned =>
       /\ st_inv.status \in {"error", "failed"}
       /\ NoJobId =>
             /\ st_inv.status = "error"
             /\ st_inv.record = InitialRecord
             /\ st_inv.metric = <<>>
       /\ (~NoJobId /\ ExtractMeetingId(st_event) = "found"
              /\ ~st_env.db_update) =>
             /\ st_inv.status = "failed"
             /\ st_inv.record = InitialRecord
             /\ st_inv.metric = IF st_env.metric
                                THEN <<FirstAbsentStage(st_event.keys)>>
                                ELSE <<>>

\* the record write failed on an event whose job id sits in chunkResult, and
\* the metric went out
C40_Witness ==
    /\ RouterReturned
    /\ st_event.ids = {"chunkResult"}
    /\ st_event.keys = {"downloadResult", "audioResult", "chunkResult"}
    /\ ~st_env.db_update /\ st_env.metric
    /\ st_inv.status = "failed"
    /\ st_inv.record = InitialRecord
    /\ st_inv.metric = <<"transcription">>

\* an event without any job id was answered with status error
RouterAnsweredNoJobId ==
    /\ RouterReturned /\ NoJobId
    /\ st_event.non_mapping = {}
    /\ st_event.keys = {"downloadResult", "audioResult"}
    /\ st_inv.status = "error"

=============================================================================
